---- MODULE Spec2Model ----
(***************************************************************************)
(* Model of the conversational state-machine engine                        *)
(* (src/src/state_machine/state_machine.py).                               *)
(*                                                                         *)
(* A worker (an asyncio task running StateMachine.handle_action) walks     *)
(* through the awaits of handle_action / _context / _switch_state.  Every  *)
(* await (a storage call or a hook call) is one atomic step; between two   *)
(* steps of a worker any other worker may run.  The hooks of a State are   *)
(* user code: a hook may change the context passed to it in any way, may   *)
(* raise, and a switcher may return None or any string.                    *)
(*                                                                         *)
(* Beside the engine the module holds three small parts, each with its own *)
(* specification: the constructor of the engine (ConfigSpec), the SQLite   *)
(* storage (src/src/state_machine/storages/sqlite_storage.py, StorageSpec) *)
(* and the clear-on-exit hook with remove_context_vars (UtilSpec).         *)
(***************************************************************************)
EXTENDS Integers, Sequences, FiniteSets, TLC

\* ------------------------------------------------------------------ bounds
\* Largest number of on_enter calls one handle_action makes in the model
\* (the code has no bound: the while loop of _switch_state).
MaxEnters == 2

\* Largest number of on_enter calls of one handle_action in a run whose
\* after_enter_switcher hooks name each other (the chain has no end there).
MaxLoopEnters == 4

\* Longest list of states the constructor is given in the model.
MaxStates == 3

\* Largest number of keys remove_context_vars is given in the model.
MaxClearing == 2

\* ------------------------------------------------------------ configuration
None == "None"

\* names of the states the engine was constructed with (self._states keys)
states == {"A", "B"}

\* self._default_state.name
default_state == "A"

\* what a switcher hook may return: None, a registered name, the empty
\* string, a name that is not registered
SwitcherResults == states \cup {None, "", "Z"}

\* what the State table may hold for a chat when the engine starts: nothing,
\* a registered name, or a name no state has (any more)
StoredNames == states \cup {None, "Z"}

Chats == {7, 8}
Workers == {1, 2}
ActionKinds == {"Message", "CallbackQuery"}

\* ContextVars: dict[str, Any]; NoVal marks a key that is not in the dict
Keys == {"a", "b"}
NoVal == 0
Vals == {1}
ContextVars == [Keys -> Vals \cup {NoVal}]
EmptyContext == [k \in Keys |-> NoVal]
\* what get_context returns for a chat without a row (Python's None)
NoContext == [k \in Keys |-> -1]

\* every dict a hook can leave behind when it was given ctx: unchanged, or
\* one key set or deleted
HookEffects(ctx) ==
    {ctx} \cup {[ctx EXCEPT ![k] = v] : k \in Keys, v \in Vals \cup {NoVal}}

VARIABLES
    storage_state,    \* table State:   chat_id -> state_name (None: no row)
    storage_context,  \* table Context: chat_id -> context    (NoContext: no row)
    pc,               \* per worker: the await it is suspended at
    chat_id,          \* per worker: action.from_user.id
    action,           \* per worker: kind of the action being handled
    context,          \* per worker: the dict yielded by _context
    current_state,    \* per worker: current_state (a name or None)
    next_state,       \* per worker: next_state (a name or None)
    outcome,          \* per worker: "running", "returned" or "raised"
    log,              \* per worker: calls made by this handle_action, in order
    loaded,           \* per worker: what get_context / get_state returned
    prev,             \* per chat, of the handle_action calls that ended: the
                      \* name the last one left, the dict the last one that
                      \* saved had in memory
    env,              \* what hooks and storage do in this run: "any": a call
                      \* may raise and a switcher may return any string;
                      \* "calm": no call raises, after_action_switcher returns
                      \* None or a registered name, after_enter_switcher None;
                      \* "loop": no call raises and after_enter_switcher of
                      \* each state names the other state; "chain": no call
                      \* raises and a switcher returns None or a registered
                      \* name
    touched,          \* per worker: a hook of this handle_action has changed
                      \* the dict it was given
    given,            \* StateMachine(...): the arguments of the constructor
    built,            \* StateMachine(...): the engine it made, or the error
    db_state,         \* SQLiteStateMachineStorage: rows of table State
    db_context,       \* SQLiteStateMachineStorage: rows of table Context
    db_call,          \* SQLiteStateMachineStorage: the last call and its result
    db_written,       \* SQLiteStateMachineStorage: per chat the arguments of the
                      \* last set_state and set_context that returned
    util,             \* state_machine.utils: the last call and its result
    sp,               \* special_states: the last hook call on a state with one
                      \* of the ready-made behaviours, and what it did
    bot               \* the bot of main.py: the session of one chat

\* what the steps of handle_action leave alone: the constructor, the tables
\* of the SQLite storage, the helper functions, the ready-made behaviours,
\* the bot
aux == <<given, built, db_state, db_context, db_call, db_written, util, sp, bot>>

\* the variables of handle_action
engine == <<storage_state, storage_context, pc, chat_id, action, context,
            current_state, next_state, outcome, log, loaded, prev, env, touched>>

vars == <<engine, aux>>

Ev(op, st, res) == [op |-> op, st |-> st, res |-> res]

NoPrev == [done |-> FALSE, state |-> None, context |-> EmptyContext, saved |-> FALSE]

\* the session the sequential runs are about
FirstChat == CHOOSE c \in Chats : \A d \in Chats : c <= d

\* the storage outlives the engine: when the engine is constructed a chat may
\* have any rows, also a state name that no state has (any more)
InitStorage ==
    /\ storage_state \in [Chats -> StoredNames]
    /\ storage_context \in [Chats -> {NoContext, EmptyContext, [EmptyContext EXCEPT !["a"] = 1]}]
    /\ \A c \in Chats \ {FirstChat} :
          storage_state[c] = None /\ storage_context[c] = NoContext

\* ------------------------------------------------- StateMachine.__init__
\* the names of the State objects a constructor call may be given
StateNames == {"A", "B", "C"}

SeqsUpTo(S, n) == UNION {[1..k -> S] : k \in 0..n}

\* mutant of MakeStatesDictFrom: a state is compared with the one before it
RECURSIVE MakeStatesDictFrom_Adjacent(_, _, _)
MakeStatesDictFrom_Adjacent(sts, i, states_dict) ==
    IF i > Len(sts) THEN [raised |-> FALSE, dict |-> states_dict]
    ELSE IF i > 1 /\ sts[i] = sts[i - 1] THEN [raised |-> TRUE, dict |-> states_dict]
    ELSE MakeStatesDictFrom_Adjacent(sts, i + 1, states_dict \cup {sts[i]})

\* the loop of _make_states_dict from the i-th state on:
\*   for state in states:
\*       if state.name in states_dict: raise AssertionError(...)
\*       states_dict[state.name] = state
\* a State is known by its name, so the dict is the set of its keys
RECURSIVE MakeStatesDictFrom(_, _, _)
MakeStatesDictFrom(sts, i, states_dict) ==
    IF i > Len(sts) THEN [raised |-> FALSE, dict |-> states_dict]
    ELSE IF sts[i] \in states_dict THEN [raised |-> TRUE, dict |-> states_dict]
    ELSE MakeStatesDictFrom(sts, i + 1, states_dict \cup {sts[i]})

\* _make_states_dict(states): states_dict = {} and the loop
MakeStatesDict(sts) == MakeStatesDictFrom(sts, 1, {})

\* mutant of DefaultKnown: the default state is not looked up
DefaultKnown_Unchecked(name, states_dict) == TRUE

\* assert default_state.name in self._states
DefaultKnown(name, states_dict) == name \in states_dict

\* no constructor call has been made
NotBuilt == [status |-> "none", states |-> {}, default_state |-> None, entered |-> None]

\* the constructor raised AssertionError: there is no engine
NoEngine == [status |-> "AssertionError", states |-> {}, default_state |-> None,
             entered |-> None]

\* StateMachine(default_state, states, bot, storage): the engine with its
\* _states and _default_state, or the AssertionError
NewStateMachine(sts, dflt) ==
    LET made == MakeStatesDict(sts)
    IN  IF made.raised THEN NoEngine
        ELSE IF ~DefaultKnown(dflt, made.dict) THEN NoEngine
        ELSE [status |-> "ok", states |-> made.dict, default_state |-> dflt,
              entered |-> None]

\* the constructor call the handle_action runs are made on
MainGiven == [states |-> <<"A", "B">>, default_state |-> default_state]

\* -------------------------------------------- SQLiteStateMachineStorage
\* values a context may hold (ContextVars is dict[str, Any]): an int, a list
\* and a tuple, each written as [t |-> its Python type, v |-> its content]
PyVals == {[t |-> "int", v |-> "1"], [t |-> "list", v |-> "1"], [t |-> "tuple", v |-> "1"]}

\* the key is not in the dict
PyAbsent == [t |-> "absent", v |-> ""]

\* the dicts set_context is called with
PyContexts == [Keys -> PyVals \cup {PyAbsent}]

\* the values of the dict are the ones JSON has of its own: no tuple
JsonNative(c) == \A k \in Keys : c[k].t # "tuple"

\* json.dumps of one value: an int becomes a number, a list and a tuple both
\* become an array
DumpsValue(x) ==
    [j |-> CASE x.t = "int" -> "number" [] x.t = "list" -> "array"
             [] x.t = "tuple" -> "array" [] OTHER -> "absent",
     v |-> x.v]

\* sqlite3.register_adapter(dict, json.dumps): the text stored for a dict
Dumps(c) == [k \in Keys |-> DumpsValue(c[k])]

\* mutant of LoadsValue: the column is read without the converter, each value
\* comes back as text
LoadsValue_Raw(x) ==
    [t |-> IF x.j = "absent" THEN "absent" ELSE "str", v |-> x.v]

\* json.loads of one value: a number becomes an int, an array a list
LoadsValue(x) ==
    [t |-> CASE x.j = "number" -> "int" [] x.j = "array" -> "list"
             [] x.j = "string" -> "str" [] OTHER -> "absent",
     v |-> x.v]

\* sqlite3.register_converter('json', json.loads): the dict of a stored text
Loads(js) == [k \in Keys |-> LoadsValue(js[k])]

\* what get_context returns for a chat without a row (Python's None)
PyNone == [k \in Keys |-> [t |-> "None", v |-> ""]]

Row(id, value) == [chat_id |-> id, value |-> value]

\* mutant of Upsert: `on conflict (chat_id) do nothing`
Upsert_DoNothing(table, id, value) ==
    IF \E r \in table : r.chat_id = id THEN table ELSE table \cup {Row(id, value)}

\* insert into T values (id, value)
\*     on conflict (chat_id) do update set <column> = value
\* with chat_id INTEGER PRIMARY KEY
Upsert(table, id, value) ==
    {r \in table : r.chat_id # id} \cup {Row(id, value)}

\* select ... from T where chat_id = id; the rows fetchone() chooses from
Select(table, id) == {r \in table : r.chat_id = id}

\* _get_state: record['state_name'] if record is not None else None
SqlGetState(table, id) ==
    IF Select(table, id) = {} THEN None
    ELSE (CHOOSE r \in Select(table, id) : TRUE).value

\* _get_context: record['context'] if record is not None else None
SqlGetContext(table, id) ==
    IF Select(table, id) = {} THEN PyNone
    ELSE Loads((CHOOSE r \in Select(table, id) : TRUE).value)

\* no call was made on the storage, or: the chat was never written
NoCall == [op |-> "none", chat_id |-> 0, state_name |-> None, context |-> PyNone]

\* ------------------------------------------------- state_machine.utils
\* the dicts and the keys remove_context_vars is called with
UtilVals == {1, 2}
UtilContexts == [Keys -> UtilVals \cup {NoVal}]
UtilKeys == Keys \cup {"c"}

\* del context[key]: KeyError when the key is not in the dict
Del(ctx, key) ==
    IF key \in DOMAIN ctx /\ ctx[key] # NoVal
    THEN [raised |-> FALSE, context |-> [ctx EXCEPT ![key] = NoVal]]
    ELSE [raised |-> TRUE, context |-> ctx]

\* mutant of ExceptKeyError: the KeyError is not caught
ExceptKeyError_Reraise(r) == r

\* try: ... except KeyError: pass
ExceptKeyError(r) == [r EXCEPT !.raised = FALSE]

\* mutant of RemoveContextVars: the loop ends at the first key that is not
\* in the dict
RECURSIVE RemoveContextVars_StopAtMissing(_, _)
RemoveContextVars_StopAtMissing(ctx, keys) ==
    IF keys = <<>> THEN [raised |-> FALSE, context |-> ctx]
    ELSE LET r == Del(ctx, Head(keys))
         IN  IF r.raised THEN [raised |-> FALSE, context |-> ctx]
             ELSE RemoveContextVars_StopAtMissing(r.context, Tail(keys))

\* remove_context_vars(context, *keys): for key in keys: del context[key],
\* a KeyError is passed over; an exception ends the loop
RECURSIVE RemoveContextVars(_, _)
RemoveContextVars(ctx, keys) ==
    IF keys = <<>> THEN [raised |-> FALSE, context |-> ctx]
    ELSE LET r == ExceptKeyError(Del(ctx, Head(keys)))
         IN  IF r.raised THEN r ELSE RemoveContextVars(r.context, Tail(keys))

\* ClearVarsOnExit.on_exit: remove_context_vars(context, *self.clearing_vars)
ClearVarsOnExit_on_exit(ctx, clearing_vars) == RemoveContextVars(ctx, clearing_vars)

NoUtil == [fn |-> "none", context |-> EmptyContext, keys |-> <<>>,
           raised |-> FALSE, out |-> EmptyContext, once |-> EmptyContext]

\* ------------------------------------------------------------------- Init
\* the parts that are at rest while handle_action is looked at: the engine
\* was constructed from MainGiven, the SQLite tables are empty
ConfigIdle ==
    /\ given = MainGiven
    /\ built = NewStateMachine(MainGiven.states, MainGiven.default_state)

DbIdle ==
    /\ db_state = {}
    /\ db_context = {}
    /\ db_call = NoCall
    /\ db_written = [c \in Chats |-> NoCall]

UtilIdle == util = NoUtil

\* ------------------------------------------- state_machine.special_states
\* message texts; a message without text (a photo, a document) has None
Texts == {"a", "b", "ab", "ba", "abc"}

\* the characters of a text
Chars(t) ==
    CASE t = "a" -> <<"a">> [] t = "b" -> <<"b">> [] t = "ab" -> <<"a", "b">>
      [] t = "ba" -> <<"b", "a">> [] t = "abc" -> <<"a", "b", "c">> [] OTHER -> <<>>

\* text t stands somewhere in text o
IsInfix(t, o) ==
    \E i \in 0..(Len(Chars(o)) - Len(Chars(t))) :
        SubSeq(Chars(o), i + 1, i + Len(Chars(t))) = Chars(t)

\* what a validator written by the user of ValidateOnMessage may return:
\* None, or a value, which may be an empty one
ValidatorValues == {None, "", "v"}

\* the texts options and options_switcher are made of
OptionTexts == {"a", "ab"}

\* the names options_switcher maps a text to (StateName is str)
Targets == {"A", ""}

\* mutant of IsValue: the truth value of the validator's result is tested
IsValue_Truthy(value) == value # None /\ value # ""

\* `if (value := self.validator(message)) is not None`
IsValue(value) == value # None

\* ValidateOnMessage.validate: on_correct(value, ...) or on_incorrect(message, ...)
Validate(value, text) ==
    IF IsValue(value) THEN <<[hook |-> "on_correct", arg |-> value]>>
    ELSE <<[hook |-> "on_incorrect", arg |-> text]>>

\* mutant of ChoiceValidator: the text is looked for inside the options
ChoiceValidator_Infix(text, options) ==
    IF text # None /\ \E o \in options : IsInfix(text, o) THEN text ELSE None

\* ChoiceByMessage.validator: if message.text in self.options: return
\* message.text (else None)
ChoiceValidator(text, options) == IF text \in options THEN text ELSE None

\* dict.get(key): the value of the key, or None
Get(dict, key) == IF key \in DOMAIN dict THEN dict[key] ELSE None

\* SwitchStateByMessage.after_action_switcher:
\*   if isinstance(action, Message):
\*       if state_name := self.options_switcher.get(action.text):
\*           return state_name
\* the walrus tests the truth value of the name
SwitchAfterAction(kind, text, options_switcher) ==
    IF kind = "Message"
    THEN LET state_name == Get(options_switcher, text)
         IN  IF state_name # None /\ state_name # "" THEN state_name ELSE None
    ELSE None

\* the value the validator of a state of class cls returns for the message
ValidatorOf(call) ==
    CASE call.cls = "ValidateOnMessage" -> call.value
      [] call.cls = "ChoiceByMessage" -> ChoiceValidator(call.text, call.options)
      [] OTHER -> ChoiceValidator(call.text, DOMAIN call.options_switcher)

NoDict == [t \in {} |-> ""]

\* no hook of a ready-made behaviour has been called
NoSp == [fn |-> "none", cls |-> "none", kind |-> "Message", text |-> None,
         value |-> None, options |-> {}, options_switcher |-> NoDict,
         calls |-> <<>>, ret |-> None]

\* the actions a state with a ready-made behaviour may be given: a state with
\* any validator, a state with any options, a state with any options_switcher
SpInputs ==
    {[NoSp EXCEPT !.cls = "ValidateOnMessage", !.text = t, !.value = v] :
        t \in Texts \cup {None}, v \in ValidatorValues}
    \cup {[NoSp EXCEPT !.cls = "ChoiceByMessage", !.text = t, !.options = o] :
        t \in Texts \cup {None}, o \in SUBSET OptionTexts}
    \cup UNION {{[NoSp EXCEPT !.cls = "SwitchStateByMessage", !.kind = k, !.text = t,
                             !.options = D, !.options_switcher = d] :
                   k \in ActionKinds, t \in Texts \cup {None}, d \in [D -> Targets]} :
                 D \in SUBSET OptionTexts}

SpecialIdle == sp = NoSp

\* ------------------------------------------------------ bot/states.py
\* The states main.py registers. A state is known here by the name the
\* switchers of bot/states.py use for it, the name of its class: BotSpec is
\* the bot with each state registered under that name. The name attribute as
\* State declares it is NameOfState, and the constructor call with it is
\* BotGiven.
BotStates ==
    {"MainMenu", "UsersMenu", "WaitUserFullName", "WaitUserPosition",
     "WaitUserFacePhoto", "SaveUser", "UpdateUser", "UserPage",
     "WaitUserSearchQuery", "UsersSearchResults", "RoomsList", "RoomPage",
     "WaitVisitDate", "RoomVisits", "TasksMenu", "TaskOpenDoorNow",
     "AccessControlMenu", "SaveAccess", "AccessedUsersList"}

\* main.py: default_state=menu, with menu := MainMenu()
BotDefaultState == "MainMenu"

\* the state objects main.py hands to the constructor, by class, in the
\* order of its list
BotClasses ==
    <<"MainMenu", "UsersMenu", "WaitUserFullName", "WaitUserPosition",
      "WaitUserFacePhoto", "SaveUser", "UpdateUser", "UserPage",
      "WaitUserSearchQuery", "UsersSearchResults", "RoomsList", "RoomPage",
      "WaitVisitDate", "RoomVisits", "TasksMenu", "TaskOpenDoorNow",
      "AccessControlMenu", "SaveAccess", "AccessedUsersList">>

\* state.name of an object of class cls: State has `name: str = __name__`,
\* in a class body the name of the module, and no class of
\* special_states.py or bot/states.py sets name
NameOfState(cls) == "state_machine.state_machine"

\* the constructor call of main.py: states=[menu := MainMenu(), ...],
\* default_state=menu, each state given by its name
BotGiven ==
    [states |-> [i \in DOMAIN BotClasses |-> NameOfState(BotClasses[i])],
     default_state |-> NameOfState(BotDefaultState)]

\* the context keys the states of the bot write, read and remove
BotKeys ==
    {"full_name", "position", "descriptor", "user_id", "user_search_query",
     "messages", "room_id", "date", "accessed"}

\* The texts of the reply keyboards, written in Latin letters:
\*   "Pomeshcheniya"        'Помещения'
\*   "Polzovateli"          'Пользователи'
\*   "Poisk"                'Поиск'
\*   "Dobavit polzovatelya" 'Добавить пользователя'
\*   "Nazad"                'Назад'
\*   "Otmena"               'Отмена'
\*   "Izmenit FIO"          'Изменить ФИО'
\*   "Izmenit dolzhnost"    'Изменить должность'  (UserPage.options)
\*   "Izmenit Dolzhnost"    'Изменить Должность'  (UserPage.after_action_switcher)
\*   "Obnovit model litsa"  'Обновить модель лица'
\*   "Poseshcheniya"        'Посещения'
\*   "Zadachi"              'Задачи'
\*   "Nastroyki dostupa"    'Настройки доступа'
\*   "Segodnya"             'Сегодня'
\*   "Vchera"               'Вчера'
\*   "Otkryt dver seychas"  'Открыть дверь сейчас'
\*   "Razreshit dostup"     'Разрешить доступ'
\*   "Zapretit dostup"      'Запретить доступ'
BotButtons ==
    {"Pomeshcheniya", "Polzovateli", "Poisk", "Dobavit polzovatelya", "Nazad",
     "Otmena", "Izmenit FIO", "Izmenit dolzhnost", "Izmenit Dolzhnost",
     "Obnovit model litsa", "Poseshcheniya", "Zadachi", "Nastroyki dostupa",
     "Segodnya", "Vchera", "Otkryt dver seychas", "Razreshit dostup",
     "Zapretit dostup"}

\* WaitUserFullName.validator: at least three words, each of letters and
\* hyphens and starting with a capital: of the texts of the model only the
\* example of the view, 'Маркер Виктор Андреевич'
BotFullNames == {"Marker Viktor Andreevich"}

\* WaitUserSearchQuery.get_search_query returns a query for a text of the
\* form '{surname} {name} {patronymic}, {position}' and raises ValueError for
\* every other text: of the texts of the model only the example of the view
BotQueries == {"Ivanov ? ?, Student"}

\* WaitVisitDate.get_date returns a date for '{day}.{month}.{year}' and raises
\* ValueError for every other text
BotDates == {"10.04.2022"}

\* the positions get_available_user_positions returns
BotPositions == {"Student"}

\* the texts a message of the model may have
BotTexts ==
    BotButtons \cup BotFullNames \cup BotQueries \cup BotDates \cup BotPositions
        \cup {"privet"}

\* the actions the dispatcher hands to handle_action: a text message, a photo
\* or a document (a message with no text), a callback query
BotMessages ==
    {[kind |-> "Message", text |-> t, photo |-> FALSE] : t \in BotTexts \cup {None}}
        \cup {[kind |-> "Message", text |-> None, photo |-> TRUE]}

BotCallbacks == {[kind |-> "CallbackQuery", text |-> None, photo |-> FALSE]}

\* what the backend answers during one handle_action: found is whether the
\* list asked for (rooms, users) has members, descriptor whether
\* calculate_descriptor returns a descriptor
BotBackends == [found : BOOLEAN, descriptor : BOOLEAN]

\* what a hook leaves: the keys of the dict, and the exception it raised with
\* the key that was absent
BotRes(keys, err, key) == [keys |-> keys, err |-> err, key |-> key]

BotOk(keys) == BotRes(keys, None, None)

\* context[k1], context[k2], ... evaluated in this order: the first key that
\* is absent raises KeyError
FirstAbsent(reads, keys) ==
    LET M == {i \in DOMAIN reads : reads[i] \notin keys}
    IN  IF M = {} THEN None ELSE reads[CHOOSE i \in M : \A j \in M : i <= j]

\* the keys on_enter (render_text for a rendered view) of a state reads as
\* context[key], in the order of the reads
BotReadsOnEnter(st) ==
    CASE st = "SaveUser" -> <<"full_name", "position", "descriptor">>
      [] st = "UserPage" -> <<"user_id">>
      [] st = "UsersSearchResults" -> <<"user_search_query">>
      [] st = "RoomPage" -> <<"room_id">>
      [] st = "RoomVisits" -> <<"room_id", "date">>
      [] st = "TaskOpenDoorNow" -> <<"room_id">>
      [] st = "AccessedUsersList" -> <<"room_id">>
      [] st = "SaveAccess" -> <<"room_id", "user_id", "accessed">>
      [] OTHER -> <<>>

\* the keys on_enter of a state sets: SaveUser the id of the created user,
\* the lists the ids of the messages they sent, when the list has members
BotWritesOnEnter(st, be) ==
    CASE st = "SaveUser" -> {"user_id"}
      [] st \in {"UsersSearchResults", "RoomsList", "AccessedUsersList"} ->
            IF be.found THEN {"messages"} ELSE {}
      [] OTHER -> {}

\* on_enter of the state st
BotOnEnter(st, keys, be) ==
    LET k == FirstAbsent(BotReadsOnEnter(st), keys)
    IN  IF k # None THEN BotRes(keys, "KeyError", k)
        ELSE BotOk(keys \cup BotWritesOnEnter(st, be))

\* on_exit of the state st: ClearVarsOnExit removes clearing_vars; the lists
\* delete their messages and remove 'messages', UsersSearchResults and
\* AccessedUsersList reading it with context.get('messages') or [],
\* RoomsList with context['messages']
BotOnExit(st, keys) ==
    CASE st = "UsersMenu" ->
            BotOk(keys \ {"full_name", "position", "descriptor", "user_id"})
      [] st \in {"SaveUser", "UpdateUser"} ->
            BotOk(keys \ {"full_name", "position", "descriptor"})
      [] st = "SaveAccess" -> BotOk(keys \ {"user_id", "accessed"})
      [] st \in {"UsersSearchResults", "AccessedUsersList"} ->
            BotOk(keys \ {"messages"})
      [] st = "RoomsList" ->
            IF "messages" \in keys THEN BotOk(keys \ {"messages"})
            ELSE BotRes(keys, "KeyError", "messages")
      [] OTHER -> BotOk(keys)

\* message_handler of the state st. A message with no text has text None:
\* None.split raises AttributeError.
BotMessageHandler(st, a, keys, be) ==
    CASE st = "AccessControlMenu" ->
            IF a.text \in {"Razreshit dostup", "Zapretit dostup"}
            THEN BotOk(keys \cup {"accessed"}) ELSE BotOk(keys)
      [] st = "WaitUserFullName" ->
            IF a.text = None THEN BotRes(keys, "AttributeError", None)
            ELSE IF a.text \in BotFullNames THEN BotOk(keys \cup {"full_name"})
            ELSE BotOk(keys)
      [] st = "WaitUserPosition" ->
            IF a.text \in BotPositions THEN BotOk(keys \cup {"position"})
            ELSE BotOk(keys)
      [] st = "WaitUserFacePhoto" ->
            IF a.text = "Otmena" THEN BotOk(keys)
            ELSE IF a.photo /\ be.descriptor THEN BotOk(keys \cup {"descriptor"})
            ELSE BotOk(keys)
      [] st = "WaitUserSearchQuery" ->
            IF a.text = "Otmena" THEN BotOk(keys)
            ELSE IF a.text = None THEN BotRes(keys, "AttributeError", None)
            ELSE IF a.text \in BotQueries THEN BotOk(keys \cup {"user_search_query"})
            ELSE BotOk(keys)
      [] st = "WaitVisitDate" ->
            IF a.text = "Nazad" THEN BotOk(keys)
            ELSE IF a.text \in {"Segodnya", "Vchera"} THEN BotOk(keys \cup {"date"})
            ELSE IF a.text = None THEN BotRes(keys, "AttributeError", None)
            ELSE IF a.text \in BotDates THEN BotOk(keys \cup {"date"})
            ELSE BotOk(keys)
      [] OTHER -> BotOk(keys)

\* callback_handler of the state st: the lists keep the id of the button
BotCallbackHandler(st, keys) ==
    CASE st \in {"UsersSearchResults", "AccessedUsersList"} -> BotOk(keys \cup {"user_id"})
      [] st = "RoomsList" -> BotOk(keys \cup {"room_id"})
      [] OTHER -> BotOk(keys)

\* options_switcher of the states that switch by the text of the message
BotOptionsSwitcher(st) ==
    CASE st = "MainMenu" ->
            ("Pomeshcheniya" :> "RoomsList" @@ "Polzovateli" :> "UsersMenu")
      [] st = "UsersMenu" ->
            ("Poisk" :> "WaitUserSearchQuery" @@
             "Dobavit polzovatelya" :> "WaitUserFullName" @@
             "Nazad" :> "MainMenu")
      [] st = "RoomPage" ->
            ("Poseshcheniya" :> "WaitVisitDate" @@ "Zadachi" :> "TasksMenu" @@
             "Nastroyki dostupa" :> "AccessControlMenu" @@ "Nazad" :> "RoomsList")
      [] st = "TasksMenu" ->
            ("Otkryt dver seychas" :> "TaskOpenDoorNow" @@ "Nazad" :> "RoomPage")
      [] st = "AccessControlMenu" ->
            ("Razreshit dostup" :> "WaitUserSearchQuery" @@
             "Zapretit dostup" :> "AccessedUsersList" @@ "Nazad" :> "RoomPage")

\* message_handler of the state st rejects the message: it answers with a
\* notice ('Недопустимый ввод!', 'Неверный формат ...', 'Сообщение должно
\* содержать изображение!', 'Не удалось получить модель лица. ...') and
\* sets no key. AccessControlMenu has its own message_handler, which sends
\* nothing; SaveUser, UpdateUser, TaskOpenDoorNow and SaveAccess have the
\* empty one of State.
BotRejects(st, a, be) ==
    CASE st \in {"MainMenu", "UsersMenu", "RoomPage", "TasksMenu"} ->
            a.text \notin DOMAIN BotOptionsSwitcher(st)
      [] st = "WaitUserFullName" ->
            a.text # None /\ a.text \notin BotFullNames /\ a.text # "Otmena"
      [] st = "WaitUserPosition" -> a.text \notin BotPositions \cup {"Otmena"}
      [] st = "WaitUserFacePhoto" ->
            a.text # "Otmena" /\ (a.photo => ~be.descriptor)
      [] st = "UserPage" ->
            a.text \notin {"Izmenit FIO", "Izmenit dolzhnost", "Obnovit model litsa", "Nazad"}
      [] st = "WaitUserSearchQuery" ->
            a.text # None /\ a.text \notin BotQueries /\ a.text # "Otmena"
      [] st \in {"UsersSearchResults", "RoomsList", "RoomVisits", "AccessedUsersList"} ->
            a.text # "Nazad"
      [] st = "WaitVisitDate" ->
            a.text # None /\ a.text \notin BotDates \cup {"Nazad", "Segodnya", "Vchera"}
      [] OTHER -> FALSE

\* what a switcher leaves: the keys, the name it returns, the exception
BotSw(keys, target) == [keys |-> keys, err |-> None, key |-> None, target |-> target]

\* after_action_switcher of the three states of the user form: 'Отмена' leads
\* back to the menu or to the page of the user being edited; with the value
\* of the state in the context the form goes on to the state next
BotFormSwitcher(a, keys, var, next) ==
    IF a.kind = "Message" /\ a.text = "Otmena"
    THEN BotSw(keys, IF "user_id" \notin keys THEN "UsersMenu" ELSE "UserPage")
    ELSE IF var \in keys
    THEN BotSw(keys, IF "user_id" \notin keys THEN next ELSE "UpdateUser")
    ELSE BotSw(keys, None)

\* after_action_switcher of the state st
BotAfterAction(st, a, keys) ==
    CASE st \in {"MainMenu", "UsersMenu", "RoomPage", "TasksMenu", "AccessControlMenu"} ->
            BotSw(keys, SwitchAfterAction(a.kind, a.text, BotOptionsSwitcher(st)))
      [] st = "WaitUserFullName" -> BotFormSwitcher(a, keys, "full_name", "WaitUserPosition")
      [] st = "WaitUserPosition" -> BotFormSwitcher(a, keys, "position", "WaitUserFacePhoto")
      [] st = "WaitUserFacePhoto" -> BotFormSwitcher(a, keys, "descriptor", "SaveUser")
      [] st = "UserPage" ->
            IF a.kind # "Message" THEN BotSw(keys, None)
            ELSE IF a.text = "Izmenit FIO" THEN BotSw(keys, "WaitUserFullName")
            ELSE IF a.text = "Izmenit Dolzhnost" THEN BotSw(keys, "WaitUserPosition")
            ELSE IF a.text = "Obnovit model litsa" THEN BotSw(keys, "WaitUserFacePhoto")
            ELSE IF a.text = "Nazad"
            THEN BotSw(keys \ {"user_id"},
                       IF "user_search_query" \in keys THEN "UsersSearchResults"
                       ELSE "UsersMenu")
            ELSE BotSw(keys, None)
      [] st = "WaitUserSearchQuery" ->
            \* action.text: a CallbackQuery has no text
            IF a.kind # "Message"
            THEN [keys |-> keys, err |-> "AttributeError", key |-> None, target |-> None]
            ELSE IF a.text = "Otmena"
            THEN BotSw(keys \ {"user_search_query"},
                       IF "room_id" \in keys THEN "AccessControlMenu" ELSE "UsersMenu")
            ELSE IF "user_search_query" \in keys THEN BotSw(keys, "UsersSearchResults")
            ELSE BotSw(keys, None)
      [] st = "UsersSearchResults" ->
            IF a.kind = "Message" /\ a.text = "Nazad"
            THEN BotSw(keys \ {"user_id"}, "WaitUserSearchQuery")
            ELSE IF "user_id" \in keys
            THEN IF "room_id" \in keys
                 THEN BotSw(keys \ {"user_search_query"}, "SaveAccess")
                 ELSE BotSw(keys, "UserPage")
            ELSE BotSw(keys, None)
      [] st = "RoomsList" ->
            IF a.kind = "Message" /\ a.text = "Nazad"
            THEN BotSw(keys \ {"room_id"}, "MainMenu")
            ELSE IF "room_id" \in keys THEN BotSw(keys, "RoomPage")
            ELSE BotSw(keys, None)
      [] st = "WaitVisitDate" ->
            IF a.kind = "Message" /\ a.text = "Nazad" THEN BotSw(keys, "RoomPage")
            ELSE IF "date" \in keys THEN BotSw(keys, "RoomVisits")
            ELSE BotSw(keys, None)
      [] st = "RoomVisits" ->
            IF a.kind = "Message" /\ a.text = "Nazad"
            THEN BotSw(keys \ {"date"}, "WaitVisitDate")
            ELSE BotSw(keys, None)
      [] st = "AccessedUsersList" ->
            IF a.kind = "Message" /\ a.text = "Nazad"
            THEN BotSw(keys \ {"user_id", "accessed", "user_search_query"},
                       "AccessControlMenu")
            ELSE IF "user_id" \in keys THEN BotSw(keys, "SaveAccess")
            ELSE BotSw(keys, None)
      [] OTHER -> BotSw(keys, None)

\* mutant of BotAfterEnter: the tasks menu forwards to the page of the room
BotAfterEnter_MenuForwards(st, keys) ==
    CASE st \in {"SaveUser", "UpdateUser"} ->
            IF "user_id" \in keys THEN "UserPage" ELSE None
      [] st = "TaskOpenDoorNow" -> "TasksMenu"
      [] st = "TasksMenu" -> "RoomPage"
      [] st = "SaveAccess" -> "AccessControlMenu"
      [] OTHER -> None

\* after_enter_switcher of the state st
BotAfterEnter(st, keys) ==
    CASE st \in {"SaveUser", "UpdateUser"} ->
            IF "user_id" \in keys THEN "UserPage" ELSE None
      [] st = "TaskOpenDoorNow" -> "TasksMenu"
      [] st = "SaveAccess" -> "AccessControlMenu"
      [] OTHER -> None

\* every name an after_action_switcher or an after_enter_switcher of the
\* states of bot/states.py can return, whatever the action and the context
BotTargets ==
    ({BotAfterAction(st, a, ks).target :
          st \in BotStates, a \in BotMessages \cup BotCallbacks, ks \in SUBSET BotKeys}
     \cup {BotAfterEnter(st, ks) : st \in BotStates, ks \in SUBSET BotKeys}) \ {None}

\* what one handle_action leaves: the stored state name, the keys of the
\* stored context, the exception that ended the call with the hook that
\* raised it, the state of the hook and the absent key, and the states whose
\* on_enter was called
BotEnd(state, keys, err, key, hook, at, entered) ==
    [state |-> state, keys |-> keys, err |-> err, key |-> key, hook |-> hook,
     at |-> at, entered |-> entered]

\* _switch_state(chat_id, cur, nxt, context), cur and nxt its current_state
\* and next_state; stored is the state name in the storage
RECURSIVE BotSwitchState(_, _, _, _, _, _)
BotSwitchState(cur, nxt, keys, stored, be, entered) ==
    LET ex == IF cur = None THEN BotOk(keys) ELSE BotOnExit(cur, keys)
    IN
    IF ex.err # None
    THEN BotEnd(stored, ex.keys, ex.err, ex.key, "on_exit", cur, entered)
    ELSE
    LET en == BotOnEnter(nxt, ex.keys, be)
        ent == Append(entered, nxt)
    IN
    IF en.err # None
    THEN BotEnd(stored, en.keys, en.err, en.key, "on_enter", nxt, ent)
    ELSE
    LET name == BotAfterEnter(nxt, en.keys) IN
    IF name = None
    THEN BotEnd(nxt, en.keys, None, None, None, None, ent)
    ELSE IF name \notin BotStates
    THEN BotEnd(nxt, en.keys, "KeyError", None, "lookup", nxt, ent)
    ELSE BotSwitchState(nxt, name, en.keys, nxt, be, ent)

\* handle_action of the engine of main.py for a session whose rows are b,
\* with a storage that answers every call
BotHandleAction(b, a, be) ==
    LET cur == IF b.state \in BotStates THEN b.state ELSE None IN
    IF cur = None
    THEN BotSwitchState(None, BotDefaultState, b.keys, b.state, be, <<>>)
    ELSE
    LET h == IF a.kind = "Message"
             THEN BotMessageHandler(cur, a, b.keys, be)
             ELSE BotCallbackHandler(cur, b.keys)
    IN
    IF h.err # None
    THEN BotEnd(b.state, h.keys, h.err, h.key,
                IF a.kind = "Message" THEN "message_handler" ELSE "callback_handler",
                cur, <<>>)
    ELSE
    LET s == BotAfterAction(cur, a, h.keys) IN
    IF s.err # None
    THEN BotEnd(b.state, s.keys, s.err, s.key, "after_action_switcher", cur, <<>>)
    ELSE IF s.target = None \/ s.target = ""
    THEN BotEnd(b.state, s.keys, None, None, None, None, <<>>)
    ELSE IF s.target \notin BotStates
    THEN BotEnd(b.state, s.keys, "KeyError", None, "lookup", cur, <<>>)
    ELSE BotSwitchState(cur, s.target, s.keys, b.state, be, <<>>)

\* no action has been handled: the storage has no rows
NoBot ==
    [state |-> None, keys |-> {}, err |-> None, key |-> None, hook |-> None,
     at |-> None, entered |-> <<>>, from |-> None, kind |-> None, text |-> None,
     photo |-> FALSE, found |-> FALSE, descriptor |-> FALSE]

BotIdle == bot = NoBot

AuxIdle == ConfigIdle /\ DbIdle /\ UtilIdle /\ SpecialIdle /\ BotIdle

InitWorkers ==
    /\ pc = [w \in Workers |-> "idle"]
    /\ chat_id = [w \in Workers |-> 7]
    /\ action = [w \in Workers |-> "Message"]
    /\ context = [w \in Workers |-> EmptyContext]
    /\ current_state = [w \in Workers |-> None]
    /\ next_state = [w \in Workers |-> None]
    /\ outcome = [w \in Workers |-> "returned"]
    /\ log = [w \in Workers |-> <<>>]
    /\ loaded = [w \in Workers |-> [context |-> NoContext, state |-> None]]
    /\ prev = [c \in Chats |-> NoPrev]
    /\ touched = [w \in Workers |-> FALSE]

Init == InitStorage /\ InitWorkers /\ env = "any" /\ AuxIdle

\* the race is looked at for a session that has no context row yet
InitRace ==
    /\ InitStorage
    /\ storage_context[FirstChat] = NoContext
    /\ InitWorkers
    /\ env = "calm"
    /\ AuxIdle

\* a run whose after_enter_switcher hooks name each other
InitLoop == InitStorage /\ InitWorkers /\ env = "loop" /\ AuxIdle

\* no handle_action runs: the sessions have no rows
EngineIdle ==
    /\ storage_state = [c \in Chats |-> None]
    /\ storage_context = [c \in Chats |-> NoContext]
    /\ InitWorkers
    /\ env = "calm"

\* a constructor call with any list of at most MaxStates states and any
\* default state, or the call of main.py
InitConfig ==
    /\ EngineIdle /\ DbIdle /\ UtilIdle /\ SpecialIdle /\ BotIdle
    /\ given \in [states : SeqsUpTo(StateNames, MaxStates), default_state : StateNames]
                    \cup {BotGiven}
    /\ built = NotBuilt

\* a storage on a new database file
InitStorageCalls ==
    EngineIdle /\ ConfigIdle /\ DbIdle /\ UtilIdle /\ SpecialIdle /\ BotIdle

\* a state with the clear-on-exit behaviour is left: any dict, any
\* clearing_vars of at most MaxClearing keys
InitUtil ==
    /\ EngineIdle /\ ConfigIdle /\ DbIdle /\ SpecialIdle /\ BotIdle
    /\ util \in {[fn |-> "none", context |-> c, keys |-> ks, raised |-> FALSE, out |-> c,
                    once |-> c] :
                   c \in UtilContexts, ks \in SeqsUpTo(UtilKeys, MaxClearing)}

\* a state with a ready-made behaviour is about to be given an action
InitSpecial ==
    /\ EngineIdle /\ ConfigIdle /\ DbIdle /\ UtilIdle /\ BotIdle
    /\ sp \in SpInputs

\* ----------------------------------------------------------------- helpers
\* mutant of Lookup: only a missing name counts as "no state"
Lookup_OnlyMissing(state_name) == IF state_name = None THEN None ELSE state_name

\* self._states.get(state_name): the state of that name, or None
Lookup(state_name) == IF state_name \in states THEN state_name ELSE None

\* `context = await self._storage.get_context(user_id) or {}`
OrEmpty(stored) == IF stored = NoContext \/ stored = EmptyContext THEN EmptyContext ELSE stored

\* mutant of IsSwitchAfterAction: None is not told from a name
IsSwitchAfterAction_NotEmpty(r) == r # ""

\* `if next_state_name := await current_state.after_action_switcher(...)`:
\* the walrus tests the truth value of the result
IsSwitchAfterAction(r) == r # None /\ r # ""

\* mutant of IsSwitchAfterEnter: the truth value of the result is tested
IsSwitchAfterEnter_Truthy(r) == r # None /\ r # ""

\* mutant of IsSwitchAfterEnter: a guard ends the chain when it comes back to
\* the default state
IsSwitchAfterEnter_NotDefault(r) == r # None /\ r # default_state

\* `while next_state_name is not None`
IsSwitchAfterEnter(r) == r # None

\* mutant of ExitedState: on_exit of the state being entered
ExitedState_Next(w) == next_state[w]

\* the state whose on_exit _switch_state calls: current_state
ExitedState(w) == current_state[w]

\* mutant of EnteredState: on_enter of the state being left
EnteredState_Current(w) ==
    IF current_state[w] = None THEN next_state[w] ELSE current_state[w]

\* the state whose on_enter _switch_state calls: next_state
EnteredState(w) == next_state[w]

\* mutant of PersistedName: the name of the state being left is written
PersistedName_Current(w) ==
    IF current_state[w] = None THEN next_state[w] ELSE current_state[w]

\* mutant of PersistedName: the name read at the start is written back when
\* there was one
PersistedName_Stored(w) ==
    IF loaded[w].state # None THEN loaded[w].state ELSE next_state[w]

\* the name _switch_state hands to _set_state: next_state.name
PersistedName(w) == next_state[w]

NumEnters(l) == Cardinality({i \in DOMAIN l : l[i].op = "on_enter"})

\* the switcher results the model lets hook op return after the calls l: once
\* MaxEnters states were entered only results that end the chain; in a calm
\* run None or a registered name, and None from after_enter_switcher
AllowedResults(l, op) ==
    IF env = "any"
    THEN IF NumEnters(l) < MaxEnters THEN SwitcherResults ELSE SwitcherResults \ states
    ELSE IF op = "after_action_switcher" THEN states \cup {None}
    ELSE IF env = "loop"
    THEN IF NumEnters(l) < MaxLoopEnters THEN states \ {l[Len(l)].st} ELSE {}
    ELSE IF env = "chain"
    THEN IF NumEnters(l) < MaxEnters THEN states \cup {None} ELSE {None}
    ELSE {None}

\* mutant of HandlerOf: the two cases of the match are swapped
HandlerOf_Swapped(kind) == IF kind = "Message" THEN "callback_handler" ELSE "message_handler"

\* match action: case Message() -> message_handler, case CallbackQuery() ->
\* callback_handler
HandlerOf(kind) == IF kind = "Message" THEN "message_handler" ELSE "callback_handler"

\* the state a call leaves the session in: the last state it entered and then
\* persisted (the on_enter before its last set_state that succeeded), or dflt
\* when it persisted none
LastWritten(l, dflt) ==
    LET W == {i \in DOMAIN l : l[i].op = "set_state" /\ l[i].res = "ok"}
    IN  IF W = {} THEN dflt ELSE l[(CHOOSE i \in W : \A j \in W : j <= i) - 1].st

\* mutant of SavedContext: a copy taken when the context was loaded is saved
SavedContext_Loaded(w) == OrEmpty(loaded[w].context)

\* mutant of SavedContext: only the keys this call changed are written onto
\* the stored dict
SavedContext_Merge(w) ==
    LET old == OrEmpty(loaded[w].context)
        now == OrEmpty(storage_context[chat_id[w]])
    IN  [k \in Keys |-> IF context[w][k] # old[k] THEN context[w][k] ELSE now[k]]

\* mutant of SavedContext: the engine puts a key of its own into the dict it
\* saves
SavedContext_Stamped(w) == [context[w] EXCEPT !["a"] = 1]

\* mutant of SavedContext: after an error the dict that was loaded is saved
SavedContext_Rollback(w) ==
    IF outcome[w] = "raised" THEN OrEmpty(loaded[w].context) ELSE context[w]

\* the dict _context hands to set_context in its finally clause
SavedContext(w) == context[w]

\* mutant of Propagate: the exception leaves handle_action at once
Propagate_NoFinally(w, ev, ctx) ==
    /\ env = "any"
    /\ log' = [log EXCEPT ![w] = Append(@, ev)]
    /\ context' = [context EXCEPT ![w] = ctx]
    /\ touched' = [touched EXCEPT ![w] = @ \/ ctx # context[w]]
    /\ outcome' = [outcome EXCEPT ![w] = "raised"]
    /\ pc' = [pc EXCEPT ![w] = "done"]
    /\ UNCHANGED <<storage_state, storage_context, chat_id, action,
                   current_state, next_state, loaded, prev, env, aux>>

\* an exception leaves the `async with` body: the finally clause runs next
Propagate(w, ev, ctx) ==
    /\ env = "any"
    /\ log' = [log EXCEPT ![w] = Append(@, ev)]
    /\ context' = [context EXCEPT ![w] = ctx]
    /\ touched' = [touched EXCEPT ![w] = @ \/ ctx # context[w]]
    /\ outcome' = [outcome EXCEPT ![w] = "raised"]
    /\ pc' = [pc EXCEPT ![w] = "set_context"]
    /\ UNCHANGED <<storage_state, storage_context, chat_id, action,
                   current_state, next_state, loaded, prev, env, aux>>

\* ----------------------------------------------------------------- actions
\* a new handle_action(action) task is created for worker w
Begin(w, c, k) ==
    /\ pc[w] \in {"idle", "done"}
    /\ chat_id' = [chat_id EXCEPT ![w] = c]
    /\ action' = [action EXCEPT ![w] = k]
    /\ pc' = [pc EXCEPT ![w] = "get_context"]
    /\ context' = [context EXCEPT ![w] = EmptyContext]
    /\ current_state' = [current_state EXCEPT ![w] = None]
    /\ next_state' = [next_state EXCEPT ![w] = None]
    /\ outcome' = [outcome EXCEPT ![w] = "running"]
    /\ log' = [log EXCEPT ![w] = <<>>]
    /\ loaded' = [loaded EXCEPT ![w] = [context |-> NoContext, state |-> None]]
    /\ touched' = [touched EXCEPT ![w] = FALSE]
    /\ UNCHANGED <<storage_state, storage_context, prev, env, aux>>

\* the actions of a session are handled strictly one after another: the next
\* handle_action starts when the one before has returned or raised
StartSequential(w) ==
    /\ \A v \in Workers : pc[v] \in {"idle", "done"}
    /\ w = CHOOSE v \in Workers : \A u \in Workers : v <= u
    /\ \E k \in ActionKinds : Begin(w, FirstChat, k)

\* two actions of the same session arrive together: the dispatcher creates a
\* task for each, and they interleave at every await
StartRace(w) ==
    /\ pc[w] = "idle"
    /\ \E k \in ActionKinds : Begin(w, FirstChat, k)

\* _context: context = await self._storage.get_context(user_id) or {}
GetContext(w) ==
    /\ pc[w] = "get_context"
    /\ \/ /\ context' = [context EXCEPT ![w] = OrEmpty(storage_context[chat_id[w]])]
          /\ loaded' = [loaded EXCEPT ![w].context = storage_context[chat_id[w]]]
          /\ log' = [log EXCEPT ![w] = Append(@, Ev("get_context", None, "ok"))]
          /\ pc' = [pc EXCEPT ![w] = "get_state"]
          /\ UNCHANGED <<outcome, prev>>
       \/ \* get_context raises: the try block was not entered, nothing is saved
          /\ env = "any"
          /\ log' = [log EXCEPT ![w] = Append(@, Ev("get_context", None, "raise"))]
          /\ outcome' = [outcome EXCEPT ![w] = "raised"]
          /\ pc' = [pc EXCEPT ![w] = "done"]
          /\ prev' = [prev EXCEPT ![chat_id[w]].done = TRUE,
                                   ![chat_id[w]].state = storage_state[chat_id[w]]]
          /\ UNCHANGED <<context, loaded>>
    /\ UNCHANGED <<storage_state, storage_context, chat_id, action,
                   current_state, next_state, env, touched, aux>>

\* mutant of GetState: the forced transition starts from an empty dict
GetState_ResetContext(w) ==
    /\ pc[w] = "get_state"
    /\ \/ LET name == storage_state[chat_id[w]]
              cur == Lookup(name)
          IN  /\ loaded' = [loaded EXCEPT ![w].state = name]
              /\ log' = [log EXCEPT ![w] = Append(@, Ev("get_state", name, "ok"))]
              /\ current_state' = [current_state EXCEPT ![w] = cur]
              /\ IF cur = None
                 THEN /\ next_state' = [next_state EXCEPT ![w] = default_state]
                      /\ pc' = [pc EXCEPT ![w] = "on_enter"]
                      /\ context' = [context EXCEPT ![w] = EmptyContext]
                 ELSE /\ pc' = [pc EXCEPT ![w] = "handler"]
                      /\ UNCHANGED <<next_state, context>>
              /\ UNCHANGED <<storage_state, storage_context, chat_id, action,
                             outcome, prev, env, touched, aux>>
       \/ Propagate(w, Ev("get_state", None, "raise"), context[w])

\* handle_action: current_state = await self._get_state(chat_id), and the
\* `if current_state is None` branch up to the first await of _switch_state
GetState(w) ==
    /\ pc[w] = "get_state"
    /\ \/ LET name == storage_state[chat_id[w]]
              cur == Lookup(name)
          IN  /\ loaded' = [loaded EXCEPT ![w].state = name]
              /\ log' = [log EXCEPT ![w] = Append(@, Ev("get_state", name, "ok"))]
              /\ current_state' = [current_state EXCEPT ![w] = cur]
              /\ IF cur = None
                 THEN /\ next_state' = [next_state EXCEPT ![w] = default_state]
                      /\ pc' = [pc EXCEPT ![w] = "on_enter"]
                 ELSE /\ pc' = [pc EXCEPT ![w] = "handler"]
                      /\ UNCHANGED next_state
              /\ UNCHANGED <<storage_state, storage_context, chat_id, action,
                             context, outcome, prev, env, touched, aux>>
       \/ Propagate(w, Ev("get_state", None, "raise"), context[w])

\* match action: message_handler / callback_handler of the current state
Handler(w) ==
    /\ pc[w] = "handler"
    /\ \E ctx \in HookEffects(context[w]) :
        \/ /\ log' = [log EXCEPT ![w] =
                        Append(@, Ev(HandlerOf(action[w]), current_state[w], "ok"))]
           /\ context' = [context EXCEPT ![w] = ctx]
           /\ touched' = [touched EXCEPT ![w] = @ \/ ctx # context[w]]
           /\ pc' = [pc EXCEPT ![w] = "after_action"]
           /\ UNCHANGED <<storage_state, storage_context, chat_id, action,
                          current_state, next_state, outcome, loaded, prev, env, aux>>
        \/ Propagate(w, Ev(HandlerOf(action[w]), current_state[w], "raise"), ctx)

\* if next_state_name := await current_state.after_action_switcher(...):
\*     next_state = self._states[next_state_name]
AfterAction(w) ==
    /\ pc[w] = "after_action"
    /\ \E ctx \in HookEffects(context[w]) :
        \/ \E r \in AllowedResults(log[w], "after_action_switcher") :
            LET ev == Ev("after_action_switcher", current_state[w], r) IN
            IF ~IsSwitchAfterAction(r)
            THEN /\ log' = [log EXCEPT ![w] = Append(@, ev)]
                 /\ context' = [context EXCEPT ![w] = ctx]
                 /\ touched' = [touched EXCEPT ![w] = @ \/ ctx # context[w]]
                 /\ pc' = [pc EXCEPT ![w] = "set_context"]
                 /\ UNCHANGED <<storage_state, storage_context, chat_id, action,
                                current_state, next_state, outcome, loaded, prev, env, aux>>
            ELSE IF r \notin states
            THEN /\ log' = [log EXCEPT ![w] = Append(Append(@, ev), Ev("lookup", r, "raise"))]
                 /\ context' = [context EXCEPT ![w] = ctx]
                 /\ touched' = [touched EXCEPT ![w] = @ \/ ctx # context[w]]
                 /\ outcome' = [outcome EXCEPT ![w] = "raised"]
                 /\ pc' = [pc EXCEPT ![w] = "set_context"]
                 /\ UNCHANGED <<storage_state, storage_context, chat_id, action,
                                current_state, next_state, loaded, prev, env, aux>>
            ELSE /\ log' = [log EXCEPT ![w] = Append(@, ev)]
                 /\ context' = [context EXCEPT ![w] = ctx]
                 /\ touched' = [touched EXCEPT ![w] = @ \/ ctx # context[w]]
                 /\ next_state' = [next_state EXCEPT ![w] = r]
                 /\ pc' = [pc EXCEPT ![w] = "on_exit"]
                 /\ UNCHANGED <<storage_state, storage_context, chat_id, action,
                                current_state, outcome, loaded, prev, env, aux>>
        \/ Propagate(w, Ev("after_action_switcher", current_state[w], "raise"), ctx)

\* _switch_state: await current_state.on_exit(chat_id, self._bot, context)
OnExit(w) ==
    /\ pc[w] = "on_exit"
    /\ \E ctx \in HookEffects(context[w]) :
        \/ /\ log' = [log EXCEPT ![w] = Append(@, Ev("on_exit", ExitedState(w), "ok"))]
           /\ context' = [context EXCEPT ![w] = ctx]
           /\ touched' = [touched EXCEPT ![w] = @ \/ ctx # context[w]]
           /\ pc' = [pc EXCEPT ![w] = "on_enter"]
           /\ UNCHANGED <<storage_state, storage_context, chat_id, action,
                          current_state, next_state, outcome, loaded, prev, env, aux>>
        \/ Propagate(w, Ev("on_exit", ExitedState(w), "raise"), ctx)

\* mutant of OnEnter: the name of the target is stored before its on_enter is
\* called
OnEnter_StoreFirst(w) ==
    /\ pc[w] = "on_enter"
    /\ storage_state' = [storage_state EXCEPT ![chat_id[w]] = EnteredState(w)]
    /\ \E ctx \in HookEffects(context[w]) : \E ok \in BOOLEAN :
        /\ ok \/ env = "any"
        /\ log' = [log EXCEPT ![w] =
                      Append(@, Ev("on_enter", EnteredState(w), IF ok THEN "ok" ELSE "raise"))]
        /\ context' = [context EXCEPT ![w] = ctx]
        /\ touched' = [touched EXCEPT ![w] = @ \/ ctx # context[w]]
        /\ outcome' = [outcome EXCEPT ![w] = IF ok THEN @ ELSE "raised"]
        /\ pc' = [pc EXCEPT ![w] = IF ok THEN "set_state" ELSE "set_context"]
    /\ UNCHANGED <<storage_context, chat_id, action, current_state, next_state,
                   loaded, prev, env, aux>>

\* _switch_state: await next_state.on_enter(chat_id, self._bot, context)
OnEnter(w) ==
    /\ pc[w] = "on_enter"
    /\ \E ctx \in HookEffects(context[w]) :
        \/ /\ log' = [log EXCEPT ![w] = Append(@, Ev("on_enter", EnteredState(w), "ok"))]
           /\ context' = [context EXCEPT ![w] = ctx]
           /\ touched' = [touched EXCEPT ![w] = @ \/ ctx # context[w]]
           /\ pc' = [pc EXCEPT ![w] = "set_state"]
           /\ UNCHANGED <<storage_state, storage_context, chat_id, action,
                          current_state, next_state, outcome, loaded, prev, env, aux>>
        \/ Propagate(w, Ev("on_enter", EnteredState(w), "raise"), ctx)

\* mutant of SetState: the error of set_state is caught and passed over, the
\* transition goes on
SetState_Swallow(w) ==
    /\ pc[w] = "set_state"
    /\ \E ok \in BOOLEAN :
        /\ ok \/ env = "any"
        /\ storage_state' =
              IF ok THEN [storage_state EXCEPT ![chat_id[w]] = PersistedName(w)]
                    ELSE storage_state
        /\ log' = [log EXCEPT ![w] =
                      Append(@, Ev("set_state", PersistedName(w), IF ok THEN "ok" ELSE "raise"))]
    /\ pc' = [pc EXCEPT ![w] = "after_enter"]
    /\ UNCHANGED <<storage_context, chat_id, action, context,
                   current_state, next_state, outcome, loaded, prev, env,
                   touched, aux>>

\* mutant of SetState: a row that exists is left as it is
SetState_KeepFirst(w) ==
    /\ pc[w] = "set_state"
    /\ \/ /\ storage_state' =
                IF storage_state[chat_id[w]] = None
                THEN [storage_state EXCEPT ![chat_id[w]] = PersistedName(w)]
                ELSE storage_state
          /\ log' = [log EXCEPT ![w] = Append(@, Ev("set_state", PersistedName(w), "ok"))]
          /\ pc' = [pc EXCEPT ![w] = "after_enter"]
          /\ UNCHANGED <<storage_context, chat_id, action, context,
                         current_state, next_state, outcome, loaded, prev, env,
                         touched, aux>>
       \/ Propagate(w, Ev("set_state", PersistedName(w), "raise"), context[w])

\* mutant of SetState: the name is stored in the row of every session
SetState_SharedRow(w) ==
    /\ pc[w] = "set_state"
    /\ \/ /\ storage_state' = [c \in Chats |-> PersistedName(w)]
          /\ log' = [log EXCEPT ![w] = Append(@, Ev("set_state", PersistedName(w), "ok"))]
          /\ pc' = [pc EXCEPT ![w] = "after_enter"]
          /\ UNCHANGED <<storage_context, chat_id, action, context,
                         current_state, next_state, outcome, loaded, prev, env,
                         touched, aux>>
       \/ Propagate(w, Ev("set_state", PersistedName(w), "raise"), context[w])

\* mutant of SetState: the context is saved together with every state name
SetState_WithContext(w) ==
    /\ pc[w] = "set_state"
    /\ \/ /\ storage_state' = [storage_state EXCEPT ![chat_id[w]] = PersistedName(w)]
          /\ storage_context' = [storage_context EXCEPT ![chat_id[w]] = context[w]]
          /\ log' = [log EXCEPT ![w] = Append(@, Ev("set_state", PersistedName(w), "ok"))]
          /\ pc' = [pc EXCEPT ![w] = "after_enter"]
          /\ UNCHANGED <<chat_id, action, context,
                         current_state, next_state, outcome, loaded, prev, env,
                         touched, aux>>
       \/ Propagate(w, Ev("set_state", PersistedName(w), "raise"), context[w])

\* _set_state: await self._storage.set_state(chat_id, state.name)
SetState(w) ==
    /\ pc[w] = "set_state"
    /\ \/ /\ storage_state' = [storage_state EXCEPT ![chat_id[w]] = PersistedName(w)]
          /\ log' = [log EXCEPT ![w] = Append(@, Ev("set_state", PersistedName(w), "ok"))]
          /\ pc' = [pc EXCEPT ![w] = "after_enter"]
          /\ UNCHANGED <<storage_context, chat_id, action, context,
                         current_state, next_state, outcome, loaded, prev, env,
                         touched, aux>>
       \/ Propagate(w, Ev("set_state", PersistedName(w), "raise"), context[w])

\* next_state_name = await next_state.after_enter_switcher(context)
\* while next_state_name is not None:
\*     current_state, next_state = next_state, self._states[next_state_name]
AfterEnter(w) ==
    /\ pc[w] = "after_enter"
    /\ \E ctx \in HookEffects(context[w]) :
        \/ \E r \in AllowedResults(log[w], "after_enter_switcher") :
            LET ev == Ev("after_enter_switcher", next_state[w], r) IN
            IF ~IsSwitchAfterEnter(r)
            THEN /\ log' = [log EXCEPT ![w] = Append(@, ev)]
                 /\ context' = [context EXCEPT ![w] = ctx]
                 /\ touched' = [touched EXCEPT ![w] = @ \/ ctx # context[w]]
                 /\ pc' = [pc EXCEPT ![w] = "set_context"]
                 /\ UNCHANGED <<storage_state, storage_context, chat_id, action,
                                current_state, next_state, outcome, loaded, prev, env, aux>>
            ELSE IF r \notin states
            THEN /\ log' = [log EXCEPT ![w] = Append(Append(@, ev), Ev("lookup", r, "raise"))]
                 /\ context' = [context EXCEPT ![w] = ctx]
                 /\ touched' = [touched EXCEPT ![w] = @ \/ ctx # context[w]]
                 /\ outcome' = [outcome EXCEPT ![w] = "raised"]
                 /\ pc' = [pc EXCEPT ![w] = "set_context"]
                 /\ UNCHANGED <<storage_state, storage_context, chat_id, action,
                                current_state, next_state, loaded, prev, env, aux>>
            ELSE /\ log' = [log EXCEPT ![w] = Append(@, ev)]
                 /\ context' = [context EXCEPT ![w] = ctx]
                 /\ touched' = [touched EXCEPT ![w] = @ \/ ctx # context[w]]
                 /\ current_state' = [current_state EXCEPT ![w] = next_state[w]]
                 /\ next_state' = [next_state EXCEPT ![w] = r]
                 /\ pc' = [pc EXCEPT ![w] = "on_exit"]
                 /\ UNCHANGED <<storage_state, storage_context, chat_id, action,
                                outcome, loaded, prev, env, aux>>
        \/ Propagate(w, Ev("after_enter_switcher", next_state[w], "raise"), ctx)

\* _context: finally: await self._storage.set_context(user_id, context);
\* then handle_action returns, or the exception in flight reaches the caller
SetContext(w) ==
    /\ pc[w] = "set_context"
    /\ \E ok \in BOOLEAN :
        /\ ok \/ env = "any"
        /\ storage_context' =
              IF ok THEN [storage_context EXCEPT ![chat_id[w]] = SavedContext(w)]
                    ELSE storage_context
        /\ log' = [log EXCEPT ![w] =
                      Append(@, Ev("set_context", None, IF ok THEN "ok" ELSE "raise"))]
        /\ outcome' = [outcome EXCEPT ![w] =
                      IF ok /\ outcome[w] = "running" THEN "returned" ELSE "raised"]
        /\ prev' = [prev EXCEPT ![chat_id[w]] =
                      [done |-> TRUE,
                       state |-> LastWritten(log[w], storage_state[chat_id[w]]),
                       context |-> IF ok THEN context[w] ELSE @.context,
                       saved |-> ok \/ @.saved]]
    /\ pc' = [pc EXCEPT ![w] = "done"]
    /\ UNCHANGED <<storage_state, chat_id, action, context, current_state,
                   next_state, loaded, env, touched, aux>>

Step(w) ==
    \/ GetContext(w)
    \/ GetState(w)
    \/ Handler(w)
    \/ AfterAction(w)
    \/ OnExit(w)
    \/ OnEnter(w)
    \/ SetState(w)
    \/ AfterEnter(w)
    \/ SetContext(w)

\* the scheduling the engine is written for: no two handle_action calls of a
\* session overlap
Next == \E w \in Workers : StartSequential(w) \/ Step(w)

Spec == Init /\ [][Next]_vars

\* no serialization in front of the engine: two calls of a session overlap
NextRace == \E w \in Workers : StartRace(w) \/ Step(w)

RaceSpec == InitRace /\ [][NextRace]_vars

\* sequential handling with states whose after_enter_switcher name each other
LoopSpec == InitLoop /\ [][Next]_vars

\* a new session: no rows; no call raises, and after_enter_switcher may name
\* a state
InitFirstContact ==
    /\ storage_state = [c \in Chats |-> None]
    /\ storage_context = [c \in Chats |-> NoContext]
    /\ InitWorkers
    /\ env = "chain"
    /\ AuxIdle

\* two actions of a new session arrive together
FirstContactSpec == InitFirstContact /\ [][NextRace]_vars

\* every session is new or has rows when the engine is constructed
InitIsolation ==
    /\ storage_state \in [Chats -> states \cup {None}]
    /\ storage_context = [c \in Chats |->
            IF storage_state[c] = None THEN NoContext
            ELSE [EmptyContext EXCEPT !["a"] = 1]]
    /\ InitWorkers
    /\ env = "calm"
    /\ AuxIdle

\* handle_action: chat_id = action.chat.id, for an action of a session that
\* no running call is handling: calls of different sessions overlap
StartIsolated(w) ==
    /\ pc[w] = "idle"
    /\ \E c \in Chats, k \in ActionKinds :
          /\ \A v \in Workers \ {w} : pc[v] \notin {"idle", "done"} => chat_id[v] # c
          /\ Begin(w, c, k)

NextIsolation == \E w \in Workers : StartIsolated(w) \/ Step(w)

\* calls of different sessions interleave at their awaits
IsolationSpec == InitIsolation /\ [][NextIsolation]_vars

\* ------------------------------------------------- StateMachine.__init__
\* StateMachine(default_state=given.default_state, states=given.states, ...)
Construct ==
    /\ built = NotBuilt
    /\ built' = NewStateMachine(given.states, given.default_state)
    /\ UNCHANGED <<engine, given, db_state, db_context, db_call, db_written, util, sp, bot>>

\* handle_action for a session without a state: _switch_state(chat_id, None,
\* self._default_state, context) calls on_enter of self._default_state
EnterDefault ==
    /\ built.status = "ok"
    /\ built.entered = None
    /\ built' = [built EXCEPT !.entered = built.default_state]
    /\ UNCHANGED <<engine, given, db_state, db_context, db_call, db_written, util, sp, bot>>

NextConfig == Construct \/ EnterDefault

ConfigSpec == InitConfig /\ [][NextConfig]_vars

\* -------------------------------------------- SQLiteStateMachineStorage
\* _set_state(chat_id, state_name): the upsert and the commit
SqlSetState(c, n) ==
    /\ db_state' = Upsert(db_state, c, n)
    /\ db_call' = [op |-> "set_state", chat_id |-> c, state_name |-> n, context |-> PyNone]
    /\ db_written' = [db_written EXCEPT ![c].state_name = n]
    /\ UNCHANGED <<engine, given, built, db_context, util, sp, bot>>

\* _get_state(chat_id)
GetStateCall(c) ==
    /\ db_call' = [op |-> "get_state", chat_id |-> c,
                   state_name |-> SqlGetState(db_state, c), context |-> PyNone]
    /\ UNCHANGED <<engine, given, built, db_state, db_context, db_written, util, sp, bot>>

\* _set_context(chat_id, context): the dict is adapted by json.dumps
SqlSetContext(c, ctx) ==
    /\ db_context' = Upsert(db_context, c, Dumps(ctx))
    /\ db_call' = [op |-> "set_context", chat_id |-> c, state_name |-> None, context |-> ctx]
    /\ db_written' = [db_written EXCEPT ![c].context = ctx]
    /\ UNCHANGED <<engine, given, built, db_state, util, sp, bot>>

\* _get_context(chat_id): the column is converted by json.loads
GetContextCall(c) ==
    /\ db_call' = [op |-> "get_context", chat_id |-> c, state_name |-> None,
                   context |-> SqlGetContext(db_context, c)]
    /\ UNCHANGED <<engine, given, built, db_state, db_context, db_written, util, sp, bot>>

SetStateCall == \E c \in Chats, n \in states : SqlSetState(c, n)

SetContextCall == \E c \in Chats, ctx \in PyContexts : SqlSetContext(c, ctx)

NextStorage ==
    \/ SetStateCall
    \/ SetContextCall
    \/ \E c \in Chats : GetStateCall(c)
    \/ \E c \in Chats : GetContextCall(c)

StorageSpec == InitStorageCalls /\ [][NextStorage]_vars

\* ------------------------------------------------- state_machine.utils
\* the engine leaves a state with the clear-on-exit behaviour: on_exit
OnExitCall ==
    /\ util.fn = "none"
    /\ LET r == ClearVarsOnExit_on_exit(util.context, util.keys)
       IN  util' = [util EXCEPT !.fn = "on_exit", !.raised = r.raised, !.out = r.context]
    /\ UNCHANGED <<engine, given, built, db_state, db_context, db_call, db_written, sp, bot>>

\* remove_context_vars(context, *keys) is called on a dict
RemoveCall ==
    /\ util.fn = "none"
    /\ LET r == RemoveContextVars(util.context, util.keys)
       IN  util' = [util EXCEPT !.fn = "remove_context_vars", !.raised = r.raised,
                                !.out = r.context, !.once = r.context]
    /\ UNCHANGED <<engine, given, built, db_state, db_context, db_call, db_written, sp, bot>>

\* remove_context_vars is called once more, with the same keys, on the dict
\* the first call left
RemoveAgainCall ==
    /\ util.fn = "remove_context_vars"
    /\ ~util.raised
    /\ LET r == RemoveContextVars(util.out, util.keys)
       IN  util' = [util EXCEPT !.fn = "remove_context_vars twice", !.raised = r.raised,
                                !.out = r.context]
    /\ UNCHANGED <<engine, given, built, db_state, db_context, db_call, db_written, sp, bot>>

NextUtil == OnExitCall \/ RemoveCall \/ RemoveAgainCall

UtilSpec == InitUtil /\ [][NextUtil]_vars

\* ------------------------------------------- state_machine.special_states
\* ValidateOnMessage.message_handler: return await self.validate(message, ...)
MessageHandlerCall ==
    /\ sp.fn = "none"
    /\ sp.cls # "none"
    /\ sp.kind = "Message"
    /\ sp' = [sp EXCEPT !.fn = "message_handler",
                        !.value = ValidatorOf(sp),
                        !.calls = Validate(ValidatorOf(sp), sp.text)]
    /\ UNCHANGED <<engine, given, built, db_state, db_context, db_call, db_written,
                   util, bot>>

\* SwitchStateByMessage.after_action_switcher(action, context), called after
\* the handler of the action
AfterActionSwitcherCall ==
    /\ sp.cls = "SwitchStateByMessage"
    /\ \/ sp.fn = "message_handler"
       \/ sp.fn = "none" /\ sp.kind = "CallbackQuery"
    /\ sp' = [sp EXCEPT !.fn = "after_action_switcher",
                        !.ret = SwitchAfterAction(sp.kind, sp.text, sp.options_switcher)]
    /\ UNCHANGED <<engine, given, built, db_state, db_context, db_call, db_written,
                   util, bot>>

NextSpecial == MessageHandlerCall \/ AfterActionSwitcherCall

SpecialSpec == InitSpecial /\ [][NextSpecial]_vars

\* ----------------------------------------------------------- the bot
\* the engine of main.py on an empty storage, before the first action
InitBot == EngineIdle /\ ConfigIdle /\ DbIdle /\ UtilIdle /\ SpecialIdle /\ BotIdle

\* the rows of the session after handle_action(a) has returned or raised,
\* with what the call was given and did
BotAfter(a, be) ==
    BotHandleAction(bot, a, be) @@
        [from |-> bot.state, kind |-> a.kind, text |-> a.text,
         photo |-> a.photo, found |-> be.found, descriptor |-> be.descriptor]

\* dispatcher.register_message_handler(state_machine.handle_action, ...)
BotMessage ==
    /\ \E a \in BotMessages, be \in BotBackends : bot' = BotAfter(a, be)
    /\ UNCHANGED <<engine, given, built, db_state, db_context, db_call, db_written,
                   util, sp>>

\* dispatcher.register_callback_query_handler(state_machine.handle_action)
BotCallbackQuery ==
    /\ \E a \in BotCallbacks, be \in BotBackends : bot' = BotAfter(a, be)
    /\ UNCHANGED <<engine, given, built, db_state, db_context, db_call, db_written,
                   util, sp>>

\* the actions of one session are handled one after another
NextBot == BotMessage \/ BotCallbackQuery

BotSpec == InitBot /\ [][NextBot]_vars

TypeOK ==
    /\ storage_state \in [Chats -> StoredNames]
    /\ storage_context \in [Chats -> ContextVars \cup {NoContext}]
    /\ pc \in [Workers -> {"idle", "get_context", "get_state", "handler",
                           "after_action", "on_exit", "on_enter", "set_state",
                           "after_enter", "set_context", "done"}]
    /\ outcome \in [Workers -> {"running", "returned", "raised"}]
    /\ context \in [Workers -> ContextVars]
    /\ env \in {"any", "calm", "loop", "chain"}
    /\ touched \in [Workers -> BOOLEAN]

\* ------------------------------------------------------- reading the log
Handlers == {"message_handler", "callback_handler"}

At(l, op) == {i \in DOMAIN l : l[i].op = op}
Count(l, op) == Cardinality(At(l, op))
Last(S) == CHOOSE i \in S : \A j \in S : j <= i

\* get_state has returned for the action worker w is handling (or handled)
StateRead(w) == Len(log[w]) >= 2 /\ log[w][2].op = "get_state" /\ log[w][2].res = "ok"

\* the action of w found no usable state name / found a registered one
Fallback(w) == StateRead(w) /\ loaded[w].state \notin states
Dispatch(w) == StateRead(w) /\ loaded[w].state \in states

Returned(w) == pc[w] = "done" /\ outcome[w] = "returned"
Raised(w) == pc[w] = "done" /\ outcome[w] = "raised"

\* the event at i is a switcher call that returned a registered target
SwitchTo(l, i) ==
    /\ l[i].op \in {"after_action_switcher", "after_enter_switcher"}
    /\ l[i].res \in states

\* ------------------------------------------------------------------ C1
\* C1 (default fallback): when the stored state name of the session is
\* absent or not registered, the first hook handle_action calls is the
\* default state's on_enter (no on_exit before it), the default state's name
\* is persisted next, the after_enter_switcher chain is followed to its end
\* (a normal return comes right after an after_enter_switcher that returned
\* None, with the name of the last state entered stored), and no
\* message_handler, callback_handler or after_action_switcher is called.
C1_DefaultFallback ==
    \A w \in Workers : Fallback(w) =>
        LET l == log[w] IN
        /\ \A i \in DOMAIN l :
              l[i].op \notin Handlers \cup {"after_action_switcher"}
        /\ Len(l) >= 3 =>
              l[3].st = default_state /\ l[3].op = "on_enter"
        /\ (Len(l) >= 4 /\ l[3].res = "ok") =>
              l[4].op = "set_state" /\ l[4].st = default_state
        /\ Returned(w) =>
              /\ l[Len(l) - 1].op = "after_enter_switcher"
              /\ l[Len(l) - 1].res = None
              /\ l[Len(l) - 1].st = l[Last(At(l, "on_enter"))].st
              /\ storage_state[chat_id[w]] = l[Last(At(l, "on_enter"))].st
              /\ \A i \in At(l, "after_enter_switcher") :
                    i < Len(l) - 1 =>
                        /\ l[i].res \in states
                        /\ l[i + 1].op = "on_exit" /\ l[i + 1].st = l[i].st
                        /\ l[i + 2].op = "on_enter" /\ l[i + 2].st = l[i].res

\* a session with an unknown stored name was sent through the default state
\* and one chained state, and the call returned
C1_Witness ==
    \E w \in Workers :
        /\ Fallback(w) /\ Returned(w)
        /\ loaded[w].state = "Z"
        /\ Count(log[w], "on_enter") = 2
        /\ storage_state[chat_id[w]] = "B"

\* ------------------------------------------------------------------ C2
\* C2 (exit-then-enter ordering): every transition step X -> Y of a
\* handle_action calls X.on_exit once and then Y.on_enter once with no other
\* hook between them: a switcher call that returned a registered target Y is
\* followed at once by on_exit of the state that was asked and then by
\* on_enter of Y, and on_exit / on_enter are called nowhere else (but for the
\* on_enter of the default fallback, which has no state to leave).  When
\* X.after_action_switcher returned Y and Y.after_enter_switcher returned
\* None, the call made exactly X.on_exit, Y.on_enter, in that order.
C2_ExitThenEnter ==
    \A w \in Workers :
        LET l == log[w] IN
        /\ \A i \in DOMAIN l : SwitchTo(l, i) =>
              /\ i + 1 <= Len(l) =>
                    l[i + 1].op = "on_exit" /\ l[i + 1].st = l[i].st
              /\ (i + 2 <= Len(l) /\ l[i + 1].res = "ok") =>
                    l[i + 2].op = "on_enter" /\ l[i + 2].st = l[i].res
        /\ \A j \in At(l, "on_exit") :
              /\ SwitchTo(l, j - 1)
              /\ l[j - 1].st = l[j].st
        /\ \A j \in At(l, "on_enter") :
              \/ j = 3 /\ Fallback(w)
              \/ /\ l[j - 1].op = "on_exit" /\ l[j - 1].res = "ok"
                 /\ l[j - 2].res = l[j].st
        /\ (/\ Returned(w)
            /\ Dispatch(w)
            /\ Len(l) >= 8
            /\ l[4].res \in states
            /\ l[8].op = "after_enter_switcher" /\ l[8].res = None) =>
              /\ At(l, "on_exit") = {5} /\ l[5].st = l[4].st
              /\ At(l, "on_enter") = {6} /\ l[6].st = l[4].res

\* a call that returned after a step A -> B following after_action_switcher
\* and a chained step B -> A following after_enter_switcher
C2_Witness ==
    \E w \in Workers :
        /\ Returned(w) /\ Dispatch(w)
        /\ loaded[w].state = "A"
        /\ Count(log[w], "on_exit") = 2
        /\ Count(log[w], "on_enter") = 2
        /\ log[w][6].st = "B"
        /\ log[w][10].st = "A"

\* ------------------------------------------------------------------ C3
\* C3 (chain termination): the chain stops exactly at the first entered state
\* whose after_enter_switcher returns None: after a None result nothing but
\* the final save follows, after any other result the engine goes on to leave
\* the state (or fails on the lookup of the name); and when handle_action
\* returns after a transition, the stored state name is the name of the last
\* state whose on_enter was called.
C3_ChainTermination ==
    \A w \in Workers :
        LET l == log[w] IN
        /\ \A i \in At(l, "after_enter_switcher") : i < Len(l) =>
              /\ l[i].res = None => l[i + 1].op = "set_context"
              /\ l[i].res \in states => l[i + 1].op = "on_exit"
              /\ l[i].res \notin states \cup {None, "raise"} =>
                    l[i + 1].op = "lookup"
        /\ (Returned(w) /\ At(l, "on_enter") # {}) =>
              /\ storage_state[chat_id[w]] = l[Last(At(l, "on_enter"))].st
              /\ l[Len(l) - 1].op = "after_enter_switcher"
              /\ l[Len(l) - 1].res = None
              /\ \A i \in At(l, "after_enter_switcher") :
                    l[i].res = None => i = Len(l) - 1

\* a dispatched action whose chain went B -> A -> B and stopped there
C3_Witness ==
    \E w \in Workers :
        /\ Returned(w) /\ Dispatch(w)
        /\ loaded[w].state = "B"
        /\ Count(log[w], "after_enter_switcher") = 2
        /\ storage_state[chat_id[w]] = "B"

\* ------------------------------------------------------------------ C4
\* C4 (persist before the next hook): in every step into a state Y the engine
\* calls set_state(Y) right after Y.on_enter returned and before
\* Y.after_enter_switcher, which is called once per on_enter; so once the
\* name of an entered state was written the stored name is the last state
\* entered, at every later point of the call, also when the call is aborted.
C4_PersistBeforeNextHook ==
    \A w \in Workers :
        LET l == log[w] IN
        /\ \A i \in At(l, "on_enter") :
              /\ (l[i].res = "ok" /\ i + 1 <= Len(l)) =>
                    l[i + 1].op = "set_state" /\ l[i + 1].st = l[i].st
              /\ (l[i].res = "ok" /\ i + 2 <= Len(l) /\ l[i + 1].res = "ok") =>
                    l[i + 2].op = "after_enter_switcher" /\ l[i + 2].st = l[i].st
              /\ (l[i].res = "raise" /\ i + 1 <= Len(l)) => l[i + 1].op = "set_context"
        /\ \A j \in At(l, "after_enter_switcher") :
              /\ l[j - 1].op = "set_state" /\ l[j - 1].res = "ok"
              /\ l[j - 2].op = "on_enter" /\ l[j - 2].st = l[j].st
        /\ \A j \in At(l, "set_state") :
              l[j - 1].op = "on_enter" /\ l[j - 1].res = "ok"
        /\ (\E j \in At(l, "set_state") : l[j].res = "ok") =>
              LET k == Last({j \in At(l, "set_state") : l[j].res = "ok"}) IN
              /\ storage_state[chat_id[w]] = l[k].st
              /\ \A i \in At(l, "on_enter") :
                    (i > k /\ l[i].res = "ok") => pc[w] = "set_state" \/ l[i + 1].res = "raise"

\* a call that was aborted by the on_exit of the state it had just entered:
\* the session stays in that state, not in the one the action started in
C4_Witness ==
    \E w \in Workers :
        /\ Raised(w) /\ Dispatch(w)
        /\ loaded[w].state = "A"
        /\ Len(log[w]) = 10
        /\ log[w][7] = Ev("set_state", "B", "ok")
        /\ log[w][9] = Ev("on_exit", "B", "raise")
        /\ storage_state[chat_id[w]] = "B"

\* ------------------------------------------------------------------ C5
\* C5 (commit-on-exit): once get_context has returned, every way the call
\* ends (return, early return of the fallback, an exception of a hook, of
\* get_state / set_state or of the lookup of a target) makes exactly one
\* set_context call, as the last call of the invocation, with the dict as it
\* is in memory then; before the end no set_context is made.
C5_CommitOnExit ==
    \A w \in Workers :
        LET l == log[w] IN
        /\ (pc[w] = "done" /\ l[1].res = "ok") =>
              /\ Count(l, "set_context") = 1
              /\ l[Len(l)].op = "set_context"
              /\ l[Len(l)].res = "ok" => storage_context[chat_id[w]] = context[w]
        /\ pc[w] \notin {"idle", "done"} => Count(l, "set_context") = 0

\* a call that failed on an unregistered target after its hooks had changed
\* the context: the changed context is what is stored
C5_Witness ==
    \E w \in Workers :
        /\ Raised(w)
        /\ Count(log[w], "lookup") = 1
        /\ log[w][Len(log[w])] = Ev("set_context", None, "ok")
        /\ context[w] # OrEmpty(loaded[w].context)
        /\ storage_context[chat_id[w]] = context[w]

\* ------------------------------------------------------------------ C6
\* C6 (unregistered-target failure): whenever after_action_switcher or
\* after_enter_switcher has returned a name that is not registered, the
\* handle_action call ends with an error (the result is not ignored).
C6_UnregisteredTargetFails ==
    \A w \in Workers :
        LET l == log[w] IN
        \A i \in DOMAIN l :
            (/\ l[i].op \in {"after_action_switcher", "after_enter_switcher"}
             /\ l[i].res \notin states \cup {None, "raise"}
             /\ pc[w] = "done") => outcome[w] = "raised"

\* ------------------------------------------------------------------ C7
\* C7 (dispatch): when the stored state name is registered, handle_action
\* calls one handler once, on the state of that name: message_handler for a
\* message, callback_handler for a callback; once the handler has returned it
\* calls after_action_switcher of the same state once, before any on_exit or
\* on_enter.
C7_Dispatch ==
    \A w \in Workers : Dispatch(w) =>
        LET l == log[w] IN
        /\ Len(l) >= 3 =>
              /\ l[3].op = IF action[w] = "Message" THEN "message_handler"
                                                    ELSE "callback_handler"
              /\ l[3].st = loaded[w].state
        /\ \A i \in DOMAIN l : l[i].op \in Handlers => i = 3
        /\ (Len(l) >= 4 /\ l[3].res = "ok") =>
              l[4].op = "after_action_switcher" /\ l[4].st = loaded[w].state
        /\ (Len(l) >= 4 /\ l[3].res = "raise") => l[4].op = "set_context"
        /\ pc[w] = "done" =>
              /\ Count(l, "message_handler") + Count(l, "callback_handler") = 1
              /\ l[3].res = "ok" => Count(l, "after_action_switcher") = 1
        /\ \A i \in DOMAIN l :
              /\ l[i].op = "after_action_switcher" => i = 4
              /\ l[i].op \in {"on_exit", "on_enter"} => i > 4

\* a callback was dispatched to state B and B's switcher moved on to A
C7_Witness ==
    \E w \in Workers :
        /\ Returned(w) /\ Dispatch(w)
        /\ action[w] = "CallbackQuery"
        /\ log[w][3] = Ev("callback_handler", "B", "ok")
        /\ log[w][4] = Ev("after_action_switcher", "B", "A")

\* ------------------------------------------------------------------ C8
\* C8 (stay): when after_action_switcher of the current state returns None,
\* the call makes no on_exit, on_enter, after_enter_switcher or set_state:
\* the final save follows at once, the stored state name stays the one the
\* action was dispatched on, and the context as the handler and the switcher
\* left it is what is stored.
C8_Stay ==
    \A w \in Workers :
        LET l == log[w] IN
        (/\ Dispatch(w)
         /\ Len(l) >= 4
         /\ l[4].op = "after_action_switcher"
         /\ l[4].res = None) =>
            /\ \A i \in DOMAIN l :
                  l[i].op \notin {"on_exit", "on_enter", "after_enter_switcher",
                                  "set_state", "lookup"}
            /\ Len(l) >= 5 => l[5].op = "set_context"
            /\ storage_state[chat_id[w]] = loaded[w].state
            /\ (pc[w] = "done" /\ l[5].res = "ok") =>
                  /\ outcome[w] = "returned"
                  /\ storage_context[chat_id[w]] = context[w]

\* a message handled in B changed the context and B stayed current
C8_Witness ==
    \E w \in Workers :
        /\ Returned(w)
        /\ log[w][4] = Ev("after_action_switcher", "B", None)
        /\ context[w] # OrEmpty(loaded[w].context)
        /\ storage_context[chat_id[w]] = context[w]
        /\ storage_state[chat_id[w]] = "B"

\* ------------------------------------------------------------------ C9
\* C9 (sequential actions): when the actions of a session are handled one
\* after another, an action gets from get_context the dict the action before
\* it had in memory when it saved, and from get_state the name the action
\* before it left (the last it wrote, or the stored one when it wrote none),
\* and is dispatched on the state of that name.
C9_SequentialActions ==
    \A w \in Workers :
        LET l == log[w]
            p == prev[chat_id[w]]
        IN  (pc[w] \notin {"idle", "done"} /\ p.done) =>
                /\ (Len(l) >= 1 /\ l[1].res = "ok" /\ p.saved) =>
                      /\ loaded[w].context = p.context
                      /\ pc[w] = "get_state" => context[w] = p.context
                /\ StateRead(w) => loaded[w].state = p.state
                /\ (Dispatch(w) /\ Len(l) >= 3) => l[3].st = p.state

\* a later action of the session is about to be handled in B, with a key in
\* its context that only a hook of an earlier action can have set
C9_Witness ==
    \E w \in Workers :
        /\ pc[w] = "handler"
        /\ prev[chat_id[w]].done /\ prev[chat_id[w]].saved
        /\ prev[chat_id[w]].state = "B"
        /\ current_state[w] = "B"
        /\ context[w]["b"] = 1
        /\ context[w] = prev[chat_id[w]].context

\* ------------------------------------------------------------------ C10
\* C10 (lost update): nothing serializes the calls of a session, and a save
\* replaces the whole stored dict by the saving call's own copy: after any
\* call has ended, the stored context is the copy of the call that saved
\* last, whatever another call saved in between.  (The witness is the lost
\* update: two overlapping calls loaded the same dict, each changed its own
\* key, and the stored dict lacks the change of the call that saved first.)
C10_LastSaveWins ==
    \A c \in Chats : prev[c].done => storage_context[c] = prev[c].context

C10_LostUpdate ==
    \E v, w \in Workers :
        /\ v # w
        /\ pc[v] = "done" /\ pc[w] = "done"
        /\ chat_id[v] = chat_id[w]
        /\ loaded[v].context = loaded[w].context
        /\ context[v]["a"] # OrEmpty(loaded[v].context)["a"]
        /\ context[w]["a"] = OrEmpty(loaded[w].context)["a"]
        /\ context[w]["b"] # OrEmpty(loaded[w].context)["b"]
        /\ storage_context[chat_id[w]] = context[w]
        /\ storage_context[chat_id[w]]["a"] # context[v]["a"]

\* ------------------------------------------------------------------ C11
\* C11 (unbounded chain): the loop of _switch_state has no cycle guard and no
\* step bound.  With two registered states whose after_enter_switcher each
\* always names the other, a handle_action that has entered either of them
\* never returns: it has not reached the end of the `async with` body, it
\* has not ended, and from the first on_enter on its calls repeat
\* on_enter(Y), set_state(Y), after_enter_switcher(Y) = X, on_exit(Y),
\* on_enter(X), ... with X and Y the two states in turn.
C11_UnboundedChain ==
    \A w \in Workers :
        LET l == log[w]
            E == At(l, "on_enter")
        IN  E # {} =>
              /\ pc[w] \in {"set_state", "after_enter", "on_exit", "on_enter"}
              /\ outcome[w] = "running"
              /\ \A i \in DOMAIN l : \A j \in E : (j <= i /\ i < Len(l)) =>
                    /\ l[i].op = "on_enter" =>
                          l[i + 1] = Ev("set_state", l[i].st, "ok")
                    /\ l[i].op = "set_state" =>
                          /\ l[i + 1].op = "after_enter_switcher"
                          /\ l[i + 1].st = l[i].st
                          /\ l[i + 1].res \in states \ {l[i].st}
                    /\ l[i].op = "after_enter_switcher" =>
                          l[i + 1] = Ev("on_exit", l[i].st, "ok")
                    /\ l[i].op = "on_exit" =>
                          l[i + 1] = Ev("on_enter", l[i - 1].res, "ok")
                    /\ l[i].op \in {"on_enter", "set_state", "after_enter_switcher", "on_exit"}

\* the chain has gone A, B, A, B and B's after_enter_switcher is awaited
C11_Witness ==
    \E w \in Workers :
        LET l == log[w]
            E == At(l, "on_enter")
        IN  /\ env = "loop"
            /\ Cardinality(E) = MaxLoopEnters
            /\ \A i \in E : i + 4 \in DOMAIN l => (i + 4 \in E /\ l[i + 4].st # l[i].st)
            /\ \E i \in E : i + 8 \in E /\ l[i + 8].st = l[i].st
            /\ pc[w] = "after_enter"

\* ------------------------------------------------------- reading a list
Range(sq) == {sq[i] : i \in DOMAIN sq}

\* two states of the list have the same name
HasDuplicate(sq) == \E i, j \in DOMAIN sq : i < j /\ sq[i] = sq[j]

\* ------------------------------------------------------------------ C12
\* C12 (uniqueness): a constructor call whose list of states holds two states
\* of the same name fails with the configuration error (AssertionError), at
\* whatever positions the two stand; and an engine that was constructed has
\* one registered state for each state of the list (none was dropped or
\* replaced).
C12_Uniqueness ==
    built.status # "none" =>
        /\ HasDuplicate(given.states) => built.status = "AssertionError"
        /\ built.status = "ok" =>
              /\ built.states = Range(given.states)
              /\ Cardinality(built.states) = Len(given.states)

\* the first and the last of three states have the same name, the one in
\* between another: the constructor has raised
C12_Witness ==
    /\ Len(given.states) = 3
    /\ given.states[1] = given.states[3]
    /\ given.states[1] # given.states[2]
    /\ given.default_state = given.states[2]
    /\ built.status = "AssertionError"

\* ------------------------------------------------------------------ C13
\* C13 (default-state validation): a constructor call whose default state
\* has a name that no state of the list has fails with the configuration
\* error; and in an engine that was constructed the default state, which is
\* the state entered on the default fallback, is a member of the registry.
C13_DefaultValidation ==
    built.status # "none" =>
        /\ given.default_state \notin Range(given.states) =>
              built.status = "AssertionError"
        /\ built.status = "ok" =>
              /\ built.default_state = given.default_state
              /\ built.default_state \in built.states
              /\ built.entered # None => built.entered \in built.states

\* an engine with two states, the default one not the first, has entered its
\* default state on a fallback
C13_Witness ==
    /\ built.status = "ok"
    /\ Len(given.states) = 2
    /\ given.default_state = given.states[2]
    /\ built.entered = given.default_state
    /\ built.entered \in built.states

\* ------------------------------------------------------------------ C14
\* C14 (transition decision): a switcher result means "stay" exactly when it
\* is None: after after_action_switcher or after_enter_switcher has returned,
\* the engine goes on to the final save without a transition if and only if
\* the result is None; after any other result it looks the name up, and
\* leaves the asked state when the name is registered.  (The call that comes
\* after a switcher call is the next one in the log, or the one the worker is
\* about to make.)
C14_TransitionDecision ==
    \A w \in Workers :
        LET l == log[w] IN
        \A i \in DOMAIN l :
            (/\ l[i].op \in {"after_action_switcher", "after_enter_switcher"}
             /\ l[i].res # "raise") =>
                LET after == IF i < Len(l) THEN l[i + 1].op ELSE pc[w]
                IN  /\ after = "set_context" <=> l[i].res = None
                    /\ after = "on_exit" <=> l[i].res \in states
                    /\ after = "lookup" <=> l[i].res \notin states \cup {None}

\* ------------------------------------------------------------------ C15
\* C15 (storage round-trip), as stated: for every session s, a get_context(s)
\* that follows set_context(s, c) with no write for s in between returns a
\* mapping equal to c, whatever c holds; and a get_state(s) that follows
\* set_state(s, n) returns n.
C15_RoundTrip ==
    LET c == db_call.chat_id IN
    /\ (db_call.op = "get_context" /\ db_written[c].context # PyNone) =>
          db_call.context = db_written[c].context
    /\ (db_call.op = "get_state" /\ db_written[c].state_name # None) =>
          db_call.state_name = db_written[c].state_name

\* C15 (storage round-trip), amended: the same for every context c whose
\* values are values JSON has of its own (an int, a list, ...); a context
\* with a tuple comes back with a list in its place.
C15_RoundTripJsonNative ==
    LET c == db_call.chat_id IN
    /\ (db_call.op = "get_context" /\ db_written[c].context # PyNone) =>
          /\ JsonNative(db_written[c].context) =>
                db_call.context = db_written[c].context
          /\ \A k \in Keys :
                db_call.context[k] =
                    IF db_written[c].context[k].t = "tuple"
                    THEN [t |-> "list", v |-> db_written[c].context[k].v]
                    ELSE db_written[c].context[k]
    /\ (db_call.op = "get_state" /\ db_written[c].state_name # None) =>
          db_call.state_name = db_written[c].state_name

\* get_context has returned the dict {a: 1, b: [1]} that was written for the
\* chat, while another dict is stored for the other chat
C15_Witness ==
    LET c == db_call.chat_id IN
    /\ db_call.op = "get_context"
    /\ db_written[c].context["a"].t = "int"
    /\ db_written[c].context["b"].t = "list"
    /\ db_call.context = db_written[c].context
    /\ \E d \in Chats \ {c} :
          /\ db_written[d].context # PyNone
          /\ db_written[d].context # db_written[c].context

\* ------------------------------------------------------------------ C16
\* C16 (storage upsert): set_state and set_context create the row of the
\* session when there is none and replace it when there is one.  So for
\* every session each table holds at most one row; the row holds the value
\* of the last write for that session, and there is no row exactly when the
\* session was never written, whatever was written for another session or
\* into the other table; and get_state / get_context of a session that was
\* never written return None.
C16_Upsert ==
    /\ \A c \in Chats :
          /\ Cardinality(Select(db_state, c)) <= 1
          /\ Cardinality(Select(db_context, c)) <= 1
          /\ Select(db_state, c) =
                IF db_written[c].state_name = None THEN {}
                ELSE {Row(c, db_written[c].state_name)}
          /\ Select(db_context, c) =
                IF db_written[c].context = PyNone THEN {}
                ELSE {Row(c, Dumps(db_written[c].context))}
    /\ (db_call.op = "get_state" /\ db_written[db_call.chat_id].state_name = None) =>
          db_call.state_name = None
    /\ (db_call.op = "get_context" /\ db_written[db_call.chat_id].context = PyNone) =>
          db_call.context = PyNone

\* get_state of a chat without a State row has returned None, while the chat
\* has a Context row and the other chat has a row in both tables, with other
\* values
C16_Witness ==
    LET c == db_call.chat_id IN
    /\ db_call.op = "get_state"
    /\ db_call.state_name = None
    /\ Select(db_state, c) = {}
    /\ Cardinality(Select(db_context, c)) = 1
    /\ \E d \in Chats \ {c} :
          /\ Cardinality(Select(db_state, d)) = 1
          /\ Cardinality(Select(db_context, d)) = 1
          /\ Select(db_context, d) # {Row(d, r.value) : r \in Select(db_context, c)}

\* ------------------------------------------------------------------ C17
\* C17 (implicit session creation): when a handle_action call for a session
\* has returned normally, a state name and a context are stored for the
\* session, and the stored state name is the name of a registered state.
C17_ImplicitCreation ==
    \A w \in Workers :
        Returned(w) =>
            /\ storage_state[chat_id[w]] \in states
            /\ storage_context[chat_id[w]] \in ContextVars

\* the first action of a session that had neither a State row nor a Context
\* row has returned
C17_Witness ==
    \E w \in Workers :
        /\ Returned(w)
        /\ loaded[w].state = None
        /\ loaded[w].context = NoContext
        /\ storage_state[chat_id[w]] \in states
        /\ storage_context[chat_id[w]] \in ContextVars

\* ------------------------------------------------------------------ C18
\* C18 (persistence failure): no storage call is made again after it raised.
\* When set_state raises during a transition, no hook runs after it (the
\* only call that follows is the final set_context), the handle_action call
\* ends with an error, and the stored state name is the one written by the
\* last set_state that succeeded (the one read at the start when none did),
\* although on_enter of the state that was not stored has run, and on_exit of
\* the state before it when there was one.
C18_PersistenceFailure ==
    \A w \in Workers :
        LET l == log[w] IN
        \A i \in DOMAIN l :
            /\ (l[i].op \in {"get_context", "get_state", "set_state", "set_context"}
                 /\ l[i].res = "raise") =>
                    \A j \in DOMAIN l : j > i => l[j].op # l[i].op
            /\ (l[i].op = "set_state" /\ l[i].res = "raise") =>
                  /\ \A j \in DOMAIN l : j > i => (j = i + 1 /\ l[j].op = "set_context")
                  /\ i = Len(l) => pc[w] = "set_context"
                  /\ outcome[w] = "raised"
                  /\ storage_state[chat_id[w]] =
                        LastWritten(SubSeq(l, 1, i - 1), loaded[w].state)
                  /\ storage_state[chat_id[w]] # l[i].st
                        \/ \E j \in 1..(i - 1) : l[j] = Ev("set_state", l[i].st, "ok")
                        \/ loaded[w].state = l[i].st
                  /\ l[i - 1] = Ev("on_enter", l[i].st, "ok")
                  /\ l[i - 2].op \in {"on_exit", "get_state"}
                  /\ l[i - 2].op = "on_exit" => l[i - 2].res = "ok"

\* set_state("B") raised in the second step of a chain that had stored "A":
\* on_exit of A and on_enter of B have run, the call has ended with an error
\* and "A" is stored
C18_Witness ==
    \E w \in Workers :
        LET l == log[w] IN
        /\ Raised(w)
        /\ \E i \in DOMAIN l :
              /\ l[i] = Ev("set_state", "B", "raise")
              /\ l[i - 1] = Ev("on_enter", "B", "ok")
              /\ l[i - 2] = Ev("on_exit", "A", "ok")
              /\ \E j \in 1..(i - 1) : l[j] = Ev("set_state", "A", "ok")
              /\ l[i + 1] = Ev("set_context", None, "ok")
        /\ storage_state[chat_id[w]] = "A"
        /\ loaded[w].state # "A"

\* ------------------------------------------------------------------ C19
\* C19 (context changed by hooks only): while no hook called by a
\* handle_action has changed the dict it was given, the dict in memory is the
\* context that was loaded (the empty mapping when none was stored); and
\* when such a call has saved, the stored context is that same context, on
\* every path: stay, transition, default fallback, chain, error.
C19_OnlyHooksChangeContext ==
    \A w \in Workers :
        LET l == log[w]
            start == IF loaded[w].context = NoContext THEN EmptyContext
                     ELSE loaded[w].context
        IN  (/\ l # <<>>
             /\ l[1] = Ev("get_context", None, "ok")
             /\ ~touched[w]) =>
                /\ context[w] = start
                /\ (pc[w] = "done" /\ l[Len(l)] = Ev("set_context", None, "ok")) =>
                      storage_context[chat_id[w]] = start

\* a call for a session without rows went through the default fallback and a
\* chain of two entries, no hook changed the dict, and it returned: the
\* empty mapping is stored
C19_Witness ==
    \E w \in Workers :
        /\ Returned(w)
        /\ Fallback(w)
        /\ NumEnters(log[w]) = 2
        /\ ~touched[w]
        /\ loaded[w].context = NoContext
        /\ storage_context[chat_id[w]] = EmptyContext

\* ------------------------------------------------------------------ C20
\* C20 (clear-on-exit): after on_exit of a state with the clear-on-exit
\* behaviour none of the keys listed in clearing_vars is in the context,
\* every other key has the value it had, and no error was raised, also when
\* a listed key was not in the context.
C20_ClearOnExit ==
    util.fn = "on_exit" =>
        /\ ~util.raised
        /\ \A k \in Keys :
              /\ k \in Range(util.keys) => util.out[k] = NoVal
              /\ k \notin Range(util.keys) => util.out[k] = util.context[k]

\* clearing_vars lists first a key that was not in the context and then "a",
\* which was; "b" is not listed: after on_exit "a" is gone, "b" has kept its
\* value and no error was raised
C20_Witness ==
    /\ util.fn = "on_exit"
    /\ Len(util.keys) = 2
    /\ util.keys[1] = "c"
    /\ util.keys[2] = "a"
    /\ util.context["a"] = 1
    /\ util.context["b"] = 2
    /\ util.out["a"] = NoVal
    /\ util.out["b"] = 2
    /\ ~util.raised

\* ------------------------------------------------------------------ C21
\* C21 (idempotent removal): remove_context_vars(context, *keys) removes the
\* listed keys that are in the dict and leaves every other key with its
\* value; a listed key that is not in the dict causes no error; and a second
\* call with the same keys leaves the dict as the first call left it.
C21_IdempotentRemoval ==
    util.fn \in {"remove_context_vars", "remove_context_vars twice"} =>
        /\ ~util.raised
        /\ \A k \in Keys :
              util.once[k] = IF k \in Range(util.keys) THEN NoVal ELSE util.context[k]
        /\ util.out = util.once

\* "b" and then "a" were removed from a dict that held "a" only, and the
\* second call has returned: "a" is gone, as after the first call
C21_Witness ==
    /\ util.fn = "remove_context_vars twice"
    /\ util.keys = <<"b", "a">>
    /\ util.context["a"] # NoVal
    /\ util.context["b"] = NoVal
    /\ util.once["a"] = NoVal
    /\ util.out = util.once
    /\ ~util.raised

C23_SwitchByText ==
    sp.fn = "after_action_switcher" =>
        /\ sp.ret = IF sp.kind = "Message" /\ sp.text \in DOMAIN sp.options_switcher
                    THEN sp.options_switcher[sp.text]
                    ELSE None
        /\ sp.calls # <<>> => (sp.calls[1].hook = "on_correct" <=> sp.ret # None)

C26_StoresRegisteredNames ==
    /\ [](\A w \in Workers : \A i \in DOMAIN log[w] :
              log[w][i].op = "set_state" => log[w][i].st \in states)
    /\ [][\A c \in Chats :
              storage_state'[c] # storage_state[c] => storage_state'[c] \in states]_vars

\* the session had a stored name that no state has; the fallback has stored
\* the name of the default state in its place
C26_Witness ==
    \E w \in Workers :
        /\ loaded[w].state \notin states \cup {None}
        /\ Count(log[w], "set_state") = 1
        /\ log[w][Len(log[w])] = Ev("set_state", default_state, "ok")
        /\ storage_state[chat_id[w]] = default_state

\* ------------------------------------------------------------------ C27
\* C27 (the session after an unregistered-target failure): the name a
\* switcher of state X returned is looked up before X.on_exit.  When the
\* lookup fails, no on_exit, on_enter or set_state follows (only the final
\* set_context), the call ends with an error, the stored state name is X
\* (the state the action was dispatched on, or the last state entered in the
\* chain), and the context as changed so far is what the final save stores.
C27_AfterUnregisteredTarget ==
    \A w \in Workers :
        LET l == log[w] IN
        \A i \in DOMAIN l :
            l[i].op = "lookup" =>
                /\ l[i - 1].op \in {"after_action_switcher", "after_enter_switcher"}
                /\ l[i - 1].res = l[i].st
                /\ l[i].st \notin states
                /\ \A j \in DOMAIN l : j > i => (j = i + 1 /\ l[j].op = "set_context")
                /\ i = Len(l) => pc[w] = "set_context"
                /\ outcome[w] = "raised"
                /\ storage_state[chat_id[w]] = l[i - 1].st
                /\ (pc[w] = "done" /\ l[Len(l)] = Ev("set_context", None, "ok")) =>
                      storage_context[chat_id[w]] = context[w]

\* the chain entered B, whose after_enter_switcher named a state that is not
\* registered: the call has ended with an error, "B" is stored, and the
\* stored context is the changed one
C27_Witness ==
    \E w \in Workers :
        LET l == log[w] IN
        /\ Raised(w)
        /\ \E i \in DOMAIN l :
              /\ l[i] = Ev("lookup", "Z", "raise")
              /\ l[i - 1] = Ev("after_enter_switcher", "B", "Z")
              /\ l[i + 1] = Ev("set_context", None, "ok")
        /\ loaded[w].state # "B"
        /\ storage_state[chat_id[w]] = "B"
        /\ touched[w]
        /\ context[w] # OrEmpty(loaded[w].context)
        /\ storage_context[chat_id[w]] = context[w]

\* ------------------------------------------------------------------ C28
\* C28 (hook failure during a transition): when on_exit of the state X being
\* left or on_enter of the target Y raises, the only call that follows is
\* the final set_context (no set_state for the step, no
\* after_enter_switcher of Y), the handle_action call ends with an error,
\* the stored state name is still X (the name that was stored before, when
\* the failing on_enter is the one of the default fallback), and the final
\* save stores the context as the hooks left it, the failed hook included.
C28_HookFailureInTransition ==
    \A w \in Workers :
        LET l == log[w] IN
        \A i \in DOMAIN l :
            (l[i].op \in {"on_exit", "on_enter"} /\ l[i].res = "raise") =>
                /\ \A j \in DOMAIN l : j > i => (j = i + 1 /\ l[j].op = "set_context")
                /\ i = Len(l) => pc[w] = "set_context"
                /\ outcome[w] = "raised"
                /\ l[i].op = "on_exit" => storage_state[chat_id[w]] = l[i].st
                /\ l[i].op = "on_enter" =>
                      /\ l[i - 1].op \in {"on_exit", "get_state"}
                      /\ l[i - 1].op = "on_exit" =>
                            /\ l[i - 1].res = "ok"
                            /\ storage_state[chat_id[w]] = l[i - 1].st
                      /\ l[i - 1].op = "get_state" =>
                            storage_state[chat_id[w]] = loaded[w].state
                /\ (pc[w] = "done" /\ l[Len(l)] = Ev("set_context", None, "ok")) =>
                      storage_context[chat_id[w]] = context[w]

\* A was left and on_enter of B raised: the call has ended with an error, "A"
\* is still stored and the stored context is the changed one
C28_Witness ==
    \E w \in Workers :
        LET l == log[w] IN
        /\ Raised(w)
        /\ \E i \in DOMAIN l :
              /\ l[i] = Ev("on_enter", "B", "raise")
              /\ l[i - 1] = Ev("on_exit", "A", "ok")
              /\ l[i + 1] = Ev("set_context", None, "ok")
              /\ Len(l) = i + 1
        /\ storage_state[chat_id[w]] = "A"
        /\ touched[w]
        /\ context[w] # OrEmpty(loaded[w].context)
        /\ storage_context[chat_id[w]] = context[w]

\* ------------------------------------------------------------------ C29
\* C29 (state name before context): within one handle_action every set_state
\* call precedes the set_context call, of which there is at most one; until
\* that call has succeeded the stored context is the one get_context read,
\* whatever state names have been stored meanwhile, and a call whose final
\* save failed leaves the session with the last state name it stored and
\* the context from before the action.
C29_StateNameBeforeContext ==
    \A w \in Workers :
        LET l == log[w]
            saved == \E i \in DOMAIN l : l[i] = Ev("set_context", None, "ok")
        IN
        /\ \A i, j \in DOMAIN l :
              (l[i].op = "set_state" /\ l[j].op = "set_context") => i < j
        /\ Count(l, "set_context") <= 1
        /\ (Len(l) >= 1 /\ l[1].res = "ok" /\ ~saved) =>
              storage_context[chat_id[w]] = loaded[w].context
        /\ (~saved /\ \E i \in DOMAIN l : l[i].op = "set_state" /\ l[i].res = "ok") =>
              storage_state[chat_id[w]] = LastWritten(l, None)

\* the session was in "A" with a stored context; the call stored "B", a hook
\* changed the dict, and the final save failed: "B" is stored with the
\* context from before the action
C29_Witness ==
    \E w \in Workers :
        LET l == log[w] IN
        /\ pc[w] = "done"
        /\ loaded[w].state = "A"
        /\ loaded[w].context # NoContext
        /\ \E i \in DOMAIN l : l[i] = Ev("set_state", "B", "ok")
        /\ l[Len(l)] = Ev("set_context", None, "raise")
        /\ storage_state[chat_id[w]] = "B"
        /\ context[w] # loaded[w].context
        /\ storage_context[chat_id[w]] = loaded[w].context

\* ------------------------------------------------------------------ C30
\* the rows of every session other than c are left as they are
OthersUnchanged(c) ==
    \A t \in Chats \ {c} :
        /\ storage_state'[t] = storage_state[t]
        /\ storage_context'[t] = storage_context[t]

\* the call of worker w sees the rows of its session as it left them: the
\* context row is the one it read until it saves, the state row is the one it
\* read or the last one it stored
OwnRowsUndisturbed(w) ==
    LET l == log[w]
        c == chat_id[w]
        saved == \E i \in DOMAIN l : l[i] = Ev("set_context", None, "ok")
    IN
    pc[w] \notin {"idle", "done"} =>
        /\ (Len(l) >= 1 /\ ~saved) => storage_context[c] = loaded[w].context
        /\ Len(l) >= 2 => storage_state[c] = LastWritten(l, loaded[w].state)

\* C30 (session isolation): with hooks that touch only the context passed to
\* them, a step of a handle_action call for session s leaves the stored
\* state name and context of every other session unchanged, what the call
\* reads are the rows of s, and while calls of different sessions
\* interleave at their awaits each call finds the rows of its session as
\* it read or wrote them.
C30_SessionIsolation ==
    /\ [](\A w \in Workers : OwnRowsUndisturbed(w))
    /\ [][\A w \in Workers :
            (pc'[w] # pc[w] \/ log'[w] # log[w]) =>
                /\ OthersUnchanged(chat_id'[w])
                /\ loaded'[w].context # loaded[w].context =>
                      loaded'[w].context = storage_context[chat_id[w]]
                /\ loaded'[w].state # loaded[w].state =>
                      loaded'[w].state = storage_state[chat_id[w]]]_vars

\* two calls of different sessions are both before their final save, each
\* has stored a state name, the sessions are in different states and the
\* contexts held by the calls differ
C30_Witness ==
    /\ chat_id[1] # chat_id[2]
    /\ \A w \in Workers :
          /\ pc[w] = "set_context"
          /\ \E i \in DOMAIN log[w] : log[w][i].op = "set_state" /\ log[w][i].res = "ok"
          /\ storage_state[chat_id[w]] # loaded[w].state
    /\ storage_state[chat_id[1]] # storage_state[chat_id[2]]
    /\ context[1] # context[2]

\* ------------------------------------------------------------------ C25
\* C25 (key presence in the configured bot): in every run of the bot from an
\* empty storage, with its actions handled one after another, no hook that
\* reads a context key as context[key] finds the key absent: no
\* handle_action ends with the KeyError of such a read.
C25_KeysPresent == ~(bot.err = "KeyError" /\ bot.key \in BotKeys)

\* ------------------------------------------------------------------ C31
\* C31 (default fallback keeps the context): when the stored state name is
\* missing or unregistered, the dict the default state's on_enter is about
\* to be given is the stored context, unchanged, when a context is stored
\* for the session, and the empty dict only when none is stored.
C31_FallbackKeepsContext ==
    \A w \in Workers :
        LET l == log[w] IN
        (pc[w] = "on_enter" /\ Len(l) = 2 /\ l[2].op = "get_state") =>
            /\ Lookup(loaded[w].state) = None
            /\ next_state[w] = default_state
            /\ loaded[w].context = storage_context[chat_id[w]]
            /\ loaded[w].context # NoContext => context[w] = loaded[w].context
            /\ loaded[w].context = NoContext => context[w] = EmptyContext

\* the session has an unregistered state name and a context with a value: the
\* default state is about to be entered with that context
C31_Witness ==
    \E w \in Workers :
        /\ pc[w] = "on_enter"
        /\ Len(log[w]) = 2
        /\ loaded[w].state \notin states \cup {None}
        /\ storage_context[chat_id[w]] = [EmptyContext EXCEPT !["a"] = 1]
        /\ context[w] = [EmptyContext EXCEPT !["a"] = 1]
        /\ next_state[w] = default_state

\* ------------------------------------------------------------------ C32
\* C32 (registered targets in the configured bot): the constructor call of
\* main.py builds an engine, and every state name that a switcher of the
\* states of bot/states.py can return is the name of a state that call
\* registered.
C32_RegisteredTargets ==
    (given = BotGiven /\ built.status # "none") =>
        /\ built.status = "ok"
        /\ BotTargets \subseteq built.states

\* ------------------------------------------------------------------ C33
\* C33 (chains terminate in the configured bot): only SaveUser, UpdateUser,
\* TaskOpenDoorNow and SaveAccess have an after_enter_switcher that can
\* return a name, the name is UserPage, TasksMenu or AccessControlMenu, and
\* the after_enter_switcher of these returns None whatever the context; so
\* every handle_action enters at most two states, the second one only as
\* the automatic step out of one of the four, and ends.
C33_ChainsTerminate ==
    LET AutoStates == {"SaveUser", "UpdateUser", "TaskOpenDoorNow", "SaveAccess"}
        AutoTargets == {"UserPage", "TasksMenu", "AccessControlMenu"}
    IN
    /\ \A st \in BotStates, ks \in SUBSET BotKeys :
          LET name == BotAfterEnter(st, ks) IN
          name # None => (st \in AutoStates /\ name \in AutoTargets)
    /\ \A st \in AutoTargets, ks \in SUBSET BotKeys : BotAfterEnter(st, ks) = None
    /\ Len(bot.entered) <= 2
    /\ Len(bot.entered) = 2 =>
          /\ bot.entered[1] \in AutoStates
          /\ bot.entered[2] \in AutoTargets
          /\ bot.entered[2] = BotAfterEnter(bot.entered[1], BotKeys)
    /\ (bot.err = None /\ bot.entered # <<>>) =>
          /\ bot.state = bot.entered[Len(bot.entered)]
          /\ BotAfterEnter(bot.state, bot.keys) = None

\* the photo of the new user was accepted: SaveUser was entered and left at
\* once for the page of the user, where the chain ended
C33_Witness ==
    /\ bot.from = "WaitUserFacePhoto"
    /\ bot.photo
    /\ bot.entered = <<"SaveUser", "UserPage">>
    /\ bot.err = None
    /\ bot.state = "UserPage"

\* ------------------------------------------------------------------ C34
\* C34 (rejected input does not change the state in the configured bot):
\* after a handle_action for a message that the handler of the current state
\* rejected as invalid, the stored state name is the one from before the
\* action.
C34_RejectedInputStays ==
    LET a == [kind |-> bot.kind, text |-> bot.text, photo |-> bot.photo]
        be == [found |-> bot.found, descriptor |-> bot.descriptor]
    IN
    (bot.from \in BotStates /\ bot.kind = "Message" /\ BotRejects(bot.from, a, be)) =>
        bot.state = bot.from

\* ------------------------------------------------------------------ C35
\* both calls have read the state name of the session, and neither found one:
\* no call had stored a name when the other read it
BothReadNone ==
    \A w \in Workers :
        Len(log[w]) >= 2 /\ log[w][2] = Ev("get_state", None, "ok")

\* C35 (concurrent first contact): when two handle_action calls of a new
\* session have both read the stored state name before either stored one,
\* both take the default fallback: each calls on_enter of the default state
\* first, neither calls a handler or an after_action_switcher, and both
\* return; every set_state of either call replaces the stored name, and
\* nothing else changes it, so that when both have ended the stored name is
\* the one the last set_state stored, the result of one of the two chains.
C35_ConcurrentFirstContact ==
    /\ [](BothReadNone =>
            /\ \A w \in Workers :
                  LET l == log[w] IN
                  /\ \A i \in DOMAIN l :
                        l[i].op \notin Handlers \cup {"after_action_switcher"}
                  /\ Len(l) >= 3 => l[3] = Ev("on_enter", default_state, "ok")
                  /\ pc[w] = "done" =>
                        /\ Returned(w)
                        /\ Count(l, "on_enter") >= 1
            /\ (\A w \in Workers : pc[w] = "done") =>
                  \E w \in Workers :
                      storage_state[FirstChat] = LastWritten(log[w], None))
    /\ [][/\ \A w \in Workers :
               (Len(log'[w]) = Len(log[w]) + 1
                   /\ log'[w][Len(log'[w])].op = "set_state"
                   /\ log'[w][Len(log'[w])].res = "ok") =>
                       storage_state'[chat_id[w]] = log'[w][Len(log'[w])].st
          /\ storage_state' # storage_state =>
               \E w \in Workers :
                   /\ pc[w] = "set_state"
                   /\ log'[w] = Append(log[w], Ev("set_state", storage_state'[chat_id[w]], "ok"))
       ]_vars

\* both calls of the new session took the fallback; the chain of the first
\* went on from "A" to "B", the chain of the second ended in "A" and stored
\* its name last: "A" is stored
C35_Witness ==
    /\ BothReadNone
    /\ \A w \in Workers : pc[w] = "done" /\ Returned(w)
    /\ \A w \in Workers : \E i \in DOMAIN log[w] : log[w][i] = Ev("on_enter", "A", "ok")
    /\ LastWritten(log[1], None) = "B"
    /\ LastWritten(log[2], None) = "A"
    /\ storage_state[FirstChat] = "A"

====
